---- MODULE Spec2Model ----
(***************************************************************************)
(* Model of the ClauseWise back end:                                       *)
(*   backend/services/granite_llm.py   GraniteLLMService, the lazily       *)
(*                                     loaded model and its operations     *)
(*   backend/api/routers/entities.py   rule based extraction and the merge *)
(* Python strings are sequences of one-character strings.  The bullet      *)
(* character U+2022 is written BULLET.                                     *)
(***************************************************************************)
EXTENDS Integers, Sequences, FiniteSets, TLC

(***************************************************************************)
(* str methods used by the code                                            *)
(***************************************************************************)
BULLET == "@"

Whitespace == {" ", "\n", "\t", "\r"}

UpperSeq ==
    <<"A","B","C","D","E","F","G","H","I","J","K","L","M",
      "N","O","P","Q","R","S","T","U","V","W","X","Y","Z">>

LowerSeq ==
    <<"a","b","c","d","e","f","g","h","i","j","k","l","m",
      "n","o","p","q","r","s","t","u","v","w","x","y","z">>

UpperChars == {UpperSeq[i] : i \in 1..26}

LowerChars == {LowerSeq[i] : i \in 1..26}

DigitChars == {"0","1","2","3","4","5","6","7","8","9"}

WordChars == UpperChars \cup LowerChars \cup DigitChars \cup {"_"}

LowerChar(c) ==
    IF c \in UpperChars
    THEN LowerSeq[CHOOSE i \in 1..26 : UpperSeq[i] = c]
    ELSE c

UpperChar(c) ==
    IF c \in LowerChars
    THEN UpperSeq[CHOOSE i \in 1..26 : LowerSeq[i] = c]
    ELSE c

\* str.lower()
StrLower(s) == [i \in 1..Len(s) |-> LowerChar(s[i])]

\* s[a-1:b] of Python for 1 <= a, as a sequence (empty when a > b)
Slice(s, a, b) ==
    IF a > b THEN <<>> ELSE SubSeq(s, a, IF b > Len(s) THEN Len(s) ELSE b)

\* s[:n]
Prefix(s, n) == Slice(s, 1, n)

\* s[i-1:].startswith(p)
MatchAt(s, p, i) ==
    /\ i + Len(p) - 1 <= Len(s)
    /\ \A k \in 1..Len(p) : s[i + k - 1] = p[k]

\* str.startswith
StartsWith(s, p) == MatchAt(s, p, 1)

\* p in s
Contains(s, p) == \E i \in 1..(Len(s) + 1) : MatchAt(s, p, i)

\* str.strip()
Strip(s) ==
    IF \A i \in 1..Len(s) : s[i] \in Whitespace THEN <<>>
    ELSE LET lo == CHOOSE i \in 1..Len(s) :
                      s[i] \notin Whitespace /\ \A j \in 1..(i - 1) : s[j] \in Whitespace
             hi == CHOOSE i \in 1..Len(s) :
                      s[i] \notin Whitespace /\ \A j \in (i + 1)..Len(s) : s[j] \in Whitespace
         IN  SubSeq(s, lo, hi)

\* str.lstrip(chars)
LStripChars(s, chars) ==
    IF \A i \in 1..Len(s) : s[i] \in chars THEN <<>>
    ELSE SubSeq(s, CHOOSE i \in 1..Len(s) :
                      s[i] \notin chars /\ \A j \in 1..(i - 1) : s[j] \in chars,
                Len(s))

\* the first occurrence of sep in s at or after position from, 0 when none
FindFrom(s, sep, from) ==
    LET last == Len(s) - Len(sep) + 1
    IN  IF \E i \in from..last : MatchAt(s, sep, i)
        THEN CHOOSE i \in from..last :
                 MatchAt(s, sep, i) /\ \A j \in from..(i - 1) : ~MatchAt(s, sep, j)
        ELSE 0

RECURSIVE SplitFrom(_, _, _)
SplitFrom(s, sep, from) ==
    LET i == FindFrom(s, sep, from)
    IN  IF i = 0 THEN <<Slice(s, from, Len(s))>>
        ELSE <<Slice(s, from, i - 1)>> \o SplitFrom(s, sep, i + Len(sep))

\* str.split(sep): the pieces between the occurrences of sep, left to right
Split(s, sep) == SplitFrom(s, sep, 1)

RECURSIVE Join(_, _)
\* sep.join(parts)
Join(parts, sep) ==
    IF Len(parts) = 0 THEN <<>>
    ELSE IF Len(parts) = 1 THEN parts[1]
    ELSE parts[1] \o sep \o Join(Tail(parts), sep)

\* str.replace(pat, ''): the occurrences of pat, left to right, are removed
ReplaceEmpty(s, pat) == Join(Split(s, pat), <<>>)

\* the elements of a sequence, as a set
Range(q) == {q[i] : i \in 1..Len(q)}

\* a list holds no value twice
NoDup(q) == \A i, j \in 1..Len(q) : i # j => q[i] # q[j]

(***************************************************************************)
(* The literal strings of granite_llm.py                                   *)
(***************************************************************************)
TURN_MARKER ==
    <<"<","|","a","s","s","i","s","t","a","n","t","|",">","\n">>

MSG ==
    [ not_available |->
        <<"M","o","d","e","l"," ","n","o","t"," ","a","v","a","i","l","a","b","l","e","."," ","P",
        "l","e","a","s","e"," ","c","h","e","c","k"," ","s","y","s","t","e","m"," ","r","e","q",
        "u","i","r","e","m","e","n","t","s"," ","a","n","d"," ","t","r","y"," ","a","g","a","i",
        "n",".">>,
      too_short |->
        <<"I"," ","u","n","d","e","r","s","t","a","n","d"," ","y","o","u","r"," ","q","u","e","s",
        "t","i","o","n","."," ","D","u","e"," ","t","o"," ","c","u","r","r","e","n","t"," ","p",
        "r","o","c","e","s","s","i","n","g"," ","c","o","n","s","t","r","a","i","n","t","s",",",
        " ","p","l","e","a","s","e"," ","t","r","y"," ","a"," ","m","o","r","e"," ","s","p","e",
        "c","i","f","i","c"," ","q","u","e","s","t","i","o","n"," ","o","r"," ","c","h","e","c",
        "k"," ","b","a","c","k"," ","s","h","o","r","t","l","y",".">>,
      gen_error |->
        <<"I","'","m"," ","e","x","p","e","r","i","e","n","c","i","n","g"," ","s","o","m","e"," ",
        "t","e","c","h","n","i","c","a","l"," ","d","i","f","f","i","c","u","l","t","i","e","s",
        " ","w","i","t","h"," ","t","e","x","t"," ","g","e","n","e","r","a","t","i","o","n",".",
        " ","P","l","e","a","s","e"," ","t","r","y"," ","a","g","a","i","n"," ","w","i","t","h",
        " ","a"," ","s","i","m","p","l","e","r"," ","q","u","e","s","t","i","o","n",".">>,
      outer_error |->
        <<"I"," ","a","p","o","l","o","g","i","z","e",","," ","b","u","t"," ","I","'","m"," ","e",
        "x","p","e","r","i","e","n","c","i","n","g"," ","t","e","c","h","n","i","c","a","l"," ",
        "d","i","f","f","i","c","u","l","t","i","e","s","."," ","P","l","e","a","s","e"," ","t",
        "r","y"," ","a","g","a","i","n"," ","l","a","t","e","r",".">>,
      simplified_head |->
        <<"S","i","m","p","l","i","f","i","e","d",":"," ">>,
      simplified_tail |->
        <<".",".","."," ","(","A","I"," ","m","o","d","e","l"," ","n","o","t"," ","a","v","a","i",
        "l","a","b","l","e",")">>,
      simplify_error |->
        <<"E","r","r","o","r"," ","s","i","m","p","l","i","f","y","i","n","g"," ","c","l","a","u",
        "s","e",":"," ">> ]

USER_TAG ==
    <<"<","|","u","s","e","r","|",">","\n">>

PROMPT ==
    [ simplify_head |->
        <<"P","l","e","a","s","e"," ","s","i","m","p","l","i","f","y"," ","t","h","e"," ","f","o",
        "l","l","o","w","i","n","g"," ","l","e","g","a","l"," ","c","l","a","u","s","e"," ","i",
        "n","t","o"," ","p","l","a","i","n",","," ","e","v","e","r","y","d","a","y"," ","l","a",
        "n","g","u","a","g","e"," ","t","h","a","t"," ","a"," ","n","o","n","-","l","a","w","y",
        "e","r"," ","c","a","n"," ","e","a","s","i","l","y"," ","u","n","d","e","r","s","t","a",
        "n","d","."," ","K","e","e","p"," ","t","h","e"," ","e","s","s","e","n","t","i","a","l",
        " ","m","e","a","n","i","n","g"," ","b","u","t"," ","m","a","k","e"," ","i","t"," ","c",
        "l","e","a","r"," ","a","n","d"," ","s","i","m","p","l","e",":","\n","\n","L","e","g","a",
        "l"," ","C","l","a","u","s","e",":"," ">>,
      simplify_tail |->
        <<"\n","\n","S","i","m","p","l","i","f","i","e","d"," ","V","e","r","s","i","o","n",":">>,
      entity_head |->
        <<"A","n","a","l","y","z","e"," ","t","h","e"," ","f","o","l","l","o","w","i","n","g"," ",
        "l","e","g","a","l"," ","d","o","c","u","m","e","n","t"," ","a","n","d"," ","e","x","t",
        "r","a","c","t"," ","k","e","y"," ","i","n","f","o","r","m","a","t","i","o","n","."," ",
        "R","e","t","u","r","n"," ","t","h","e"," ","r","e","s","u","l","t","s"," ","i","n"," ",
        "t","h","i","s"," ","e","x","a","c","t"," ","f","o","r","m","a","t",":","\n","\n","P","A",
        "R","T","I","E","S",":"," ","[","l","i","s","t"," ","t","h","e"," ","i","n","d","i","v",
        "i","d","u","a","l","s",","," ","c","o","m","p","a","n","i","e","s",","," ","o","r"," ",
        "o","r","g","a","n","i","z","a","t","i","o","n","s"," ","i","n","v","o","l","v","e","d",
        "]","\n","D","A","T","E","S",":"," ","[","l","i","s","t"," ","a","l","l"," ","d","a","t",
        "e","s"," ","m","e","n","t","i","o","n","e","d","]","\n","M","O","N","E","T","A","R","Y",
        " ","V","A","L","U","E","S",":"," ","[","l","i","s","t"," ","a","l","l"," ","m","o","n",
        "e","y"," ","a","m","o","u","n","t","s",","," ","f","e","e","s",","," ","o","r"," ","f",
        "i","n","a","n","c","i","a","l"," ","t","e","r","m","s","]","\n","O","B","L","I","G","A",
        "T","I","O","N","S",":"," ","[","l","i","s","t"," ","k","e","y"," ","d","u","t","i","e",
        "s",","," ","r","e","s","p","o","n","s","i","b","i","l","i","t","i","e","s",","," ","o",
        "r"," ","r","e","q","u","i","r","e","m","e","n","t","s","]","\n","L","E","G","A","L"," ",
        "T","E","R","M","S",":"," ","[","l","i","s","t"," ","i","m","p","o","r","t","a","n","t",
        " ","l","e","g","a","l"," ","c","o","n","c","e","p","t","s"," ","o","r"," ","t","e","c",
        "h","n","i","c","a","l"," ","t","e","r","m","s","]","\n","\n","D","o","c","u","m","e","n",
        "t",":"," ">>,
      entity_tail |->
        <<".",".",".","\n","\n","A","n","a","l","y","s","i","s",":">>,
      classify_head |->
        <<"A","n","a","l","y","z","e"," ","t","h","e"," ","f","o","l","l","o","w","i","n","g"," ",
        "l","e","g","a","l"," ","d","o","c","u","m","e","n","t"," ","a","n","d"," ","c","l","a",
        "s","s","i","f","y"," ","i","t","s"," ","t","y","p","e","."," ","C","h","o","o","s","e",
        " ","f","r","o","m"," ","t","h","e","s","e"," ","c","a","t","e","g","o","r","i","e","s",
        ":","\n","-"," ","N","o","n","-","D","i","s","c","l","o","s","u","r","e"," ","A","g","r",
        "e","e","m","e","n","t"," ","(","N","D","A",")","\n","-"," ","E","m","p","l","o","y","m",
        "e","n","t"," ","C","o","n","t","r","a","c","t","\n","-"," ","S","e","r","v","i","c","e",
        " ","A","g","r","e","e","m","e","n","t","\n","-"," ","L","e","a","s","e"," ","A","g","r",
        "e","e","m","e","n","t","\n","-"," ","P","u","r","c","h","a","s","e"," ","A","g","r","e",
        "e","m","e","n","t","\n","-"," ","P","a","r","t","n","e","r","s","h","i","p"," ","A","g",
        "r","e","e","m","e","n","t","\n","-"," ","L","i","c","e","n","s","e"," ","A","g","r","e",
        "e","m","e","n","t","\n","-"," ","G","e","n","e","r","a","l"," ","L","e","g","a","l"," ",
        "D","o","c","u","m","e","n","t","\n","\n","A","l","s","o"," ","p","r","o","v","i","d","e",
        " ","c","o","n","f","i","d","e","n","c","e"," ","l","e","v","e","l"," ","(","0",".","0",
        " ","t","o"," ","1",".","0",")"," ","a","n","d"," ","k","e","y"," ","c","h","a","r","a",
        "c","t","e","r","i","s","t","i","c","s",".","\n","\n","D","o","c","u","m","e","n","t"," ",
        "e","x","c","e","r","p","t",":"," ">>,
      classify_tail |->
        <<".",".",".","\n","\n","C","l","a","s","s","i","f","i","c","a","t","i","o","n",":","\n",
        "T","y","p","e",":","\n","C","o","n","f","i","d","e","n","c","e",":","\n","D","e","s","c",
        "r","i","p","t","i","o","n",":","\n","K","e","y"," ","C","h","a","r","a","c","t","e","r",
        "i","s","t","i","c","s",":">>,
      answer_head |->
        <<"Y","o","u"," ","a","r","e"," ","C","l","a","u","s","e","W","i","s","e"," ","A","I",",",
        " ","a"," ","l","e","g","a","l"," ","d","o","c","u","m","e","n","t"," ","a","n","a","l",
        "y","s","i","s"," ","a","s","s","i","s","t","a","n","t","."," ","A","n","s","w","e","r",
        " ","t","h","e"," ","f","o","l","l","o","w","i","n","g"," ","q","u","e","s","t","i","o",
        "n"," ","a","b","o","u","t"," ","l","e","g","a","l"," ","c","o","n","c","e","p","t","s",
        " ","o","r"," ","d","o","c","u","m","e","n","t"," ","a","n","a","l","y","s","i","s",".",
        "\n","\n","C","o","n","t","e","x","t",":"," ">>,
      answer_mid |->
        <<"\n","\n","Q","u","e","s","t","i","o","n",":"," ">>,
      answer_tail |->
        <<"\n","\n","A","n","s","w","e","r",":">> ]

HDR ==
    [ parties |->
        <<"P","A","R","T","I","E","S",":">>,
      dates |->
        <<"D","A","T","E","S",":">>,
      monetary_values |->
        <<"M","O","N","E","T","A","R","Y"," ","V","A","L","U","E","S",":">>,
      obligations |->
        <<"O","B","L","I","G","A","T","I","O","N","S",":">>,
      legal_terms |->
        <<"L","E","G","A","L"," ","T","E","R","M","S",":">>,
      type |->
        <<"T","y","p","e",":">>,
      confidence |->
        <<"C","o","n","f","i","d","e","n","c","e",":">>,
      description |->
        <<"D","e","s","c","r","i","p","t","i","o","n",":">>,
      key_characteristics |->
        <<"K","e","y"," ","C","h","a","r","a","c","t","e","r","i","s","t","i","c","s",":">> ]

PH ==
    [ parties |->
        <<"[","l","i","s","t"," ","t","h","e"," ","i","n","d","i","v","i","d","u","a","l","s",",",
        " ","c","o","m","p","a","n","i","e","s",","," ","o","r"," ","o","r","g","a","n","i","z",
        "a","t","i","o","n","s"," ","i","n","v","o","l","v","e","d","]">>,
      dates |->
        <<"[","l","i","s","t"," ","a","l","l"," ","d","a","t","e","s"," ","m","e","n","t","i","o",
        "n","e","d","]">>,
      monetary_values |->
        <<"[","l","i","s","t"," ","a","l","l"," ","m","o","n","e","y"," ","a","m","o","u","n","t",
        "s",","," ","f","e","e","s",","," ","o","r"," ","f","i","n","a","n","c","i","a","l"," ",
        "t","e","r","m","s","]">>,
      obligations |->
        <<"[","l","i","s","t"," ","k","e","y"," ","d","u","t","i","e","s",","," ","r","e","s","p",
        "o","n","s","i","b","i","l","i","t","i","e","s",","," ","o","r"," ","r","e","q","u","i",
        "r","e","m","e","n","t","s","]">>,
      legal_terms |->
        <<"[","l","i","s","t"," ","i","m","p","o","r","t","a","n","t"," ","l","e","g","a","l"," ",
        "c","o","n","c","e","p","t","s"," ","o","r"," ","t","e","c","h","n","i","c","a","l"," ",
        "t","e","r","m","s","]">> ]

None == "None"

(***************************************************************************)
(* GraniteLLMService.generate_response, the text handling of lines 95-119  *)
(***************************************************************************)
MIN_RESPONSE_LEN == 10

\* f"<|user|>\n{prompt}\n<|assistant|>\n"
FormatPrompt(prompt) == USER_TAG \o prompt \o <<"\n">> \o TURN_MARKER

\* the whole generated text, prompt included
WholeText(full_response) == Strip(full_response)

\* full_response.split("<|assistant|>\n")[-1].strip()
AssistantPart(full_response) ==
    LET parts == Split(full_response, TURN_MARKER)
    IN  Strip(parts[Len(parts)])

\* the value generate_response returns for a generated text
ReplyOf(full_response) ==
    LET response == AssistantPart(full_response)
    IN  IF response = <<>> \/ Len(response) < MIN_RESPONSE_LEN
        THEN MSG.too_short
        ELSE response

(***************************************************************************)
(* The entity response parser of extract_entities_with_ai                  *)
(***************************************************************************)
Categories == <<"parties", "dates", "monetary_values", "obligations", "legal_terms">>

CategorySet == Range(Categories)

EmptyEntities == [c \in CategorySet |-> <<>>]

\* the header branches without the comparison with the placeholder
SectionsWithoutPlaceholder ==
    << [cat |-> "parties",         hdr |-> HDR.parties,     ph |-> <<>>],
       [cat |-> "dates",           hdr |-> HDR.dates,       ph |-> <<>>],
       [cat |-> "monetary_values", hdr |-> HDR.monetary_values,    ph |-> <<>>],
       [cat |-> "obligations",     hdr |-> HDR.obligations, ph |-> <<>>],
       [cat |-> "legal_terms",     hdr |-> HDR.legal_terms, ph |-> <<>>] >>

\* the header branches of the parser, in the order of the elif chain
Sections ==
    << [cat |-> "parties",         hdr |-> HDR.parties,     ph |-> PH.parties],
       [cat |-> "dates",           hdr |-> HDR.dates,       ph |-> PH.dates],
       [cat |-> "monetary_values", hdr |-> HDR.monetary_values,    ph |-> PH.monetary_values],
       [cat |-> "obligations",     hdr |-> HDR.obligations, ph |-> PH.obligations],
       [cat |-> "legal_terms",     hdr |-> HDR.legal_terms, ph |-> PH.legal_terms] >>

NonEmpty(s) == s # <<>>

\* [item.strip() for item in items.split(',') if item.strip()]
InlineItems(items) ==
    LET parts == Split(items, <<",">>)
    IN  SelectSeq([i \in 1..Len(parts) |-> Strip(parts[i])], NonEmpty)

\* the branch of the elif chain a stripped line takes: 1..5 a header, 0 none
HeaderOf(line) ==
    LET hits == {k \in 1..5 : StartsWith(line, Sections[k].hdr)}
    IN  IF hits = {} THEN 0 ELSE CHOOSE k \in hits : \A j \in hits : k <= j

\* a bullet branch that knows the dash only
IsDashLine(cur, line) == cur # None /\ StartsWith(line, <<"-">>)

\* elif current_category and line.startswith('-') or line.startswith(BULLET)
IsBulletLine(cur, line) ==
    (cur # None /\ StartsWith(line, <<"-">>)) \/ StartsWith(line, <<BULLET>>)

\* the loop body with current_category assigned only under "if items"
ParseEntityLineLateSwitch(st, raw) ==
    LET line == Strip(raw)
        k    == HeaderOf(line)
    IN  IF st.stopped THEN st
        ELSE IF k # 0 THEN
            LET sec   == Sections[k]
                items == Strip(ReplaceEmpty(line, sec.hdr))
            IN  IF items # <<>> /\ items # sec.ph
                THEN [st EXCEPT !.cur = sec.cat,
                                !.ents[sec.cat] = @ \o InlineItems(items)]
                ELSE st
        ELSE IF IsBulletLine(st.cur, line) THEN
            LET item == Strip(LStripChars(line, {"-", BULLET}))
            IN  IF item = <<>> THEN st
                ELSE IF st.cur = None
                     THEN [st EXCEPT !.stopped = TRUE]
                     ELSE [st EXCEPT !.ents[st.cur] = Append(@, item)]
        ELSE st

\* one turn of the loop over the lines; st.stopped: an exception left the loop
ParseEntityLine(st, raw) ==
    LET line == Strip(raw)
        k    == HeaderOf(line)
    IN  IF st.stopped THEN st
        ELSE IF k # 0 THEN
            LET sec   == Sections[k]
                items == Strip(ReplaceEmpty(line, sec.hdr))
                found == IF items # <<>> /\ items # sec.ph
                         THEN InlineItems(items) ELSE <<>>
            IN  [st EXCEPT !.cur = sec.cat, !.ents[sec.cat] = @ \o found]
        ELSE IF IsBulletLine(st.cur, line) THEN
            LET item == Strip(LStripChars(line, {"-", BULLET}))
            IN  IF item = <<>> THEN st
                ELSE IF st.cur = None
                     THEN [st EXCEPT !.stopped = TRUE]
                     ELSE [st EXCEPT !.ents[st.cur] = Append(@, item)]
        ELSE st

RECURSIVE ParseEntityLines(_, _)
ParseEntityLines(st, lines) ==
    IF Len(lines) = 0 THEN st
    ELSE ParseEntityLines(ParseEntityLine(st, lines[1]), Tail(lines))

\* lines 179-228: the EntitySet parsed from the text generate_response returned
ParseEntities(response) ==
    ParseEntityLines([ents |-> EmptyEntities, cur |-> None, stopped |-> FALSE],
                     Split(response, <<"\n">>)).ents

GENERAL_LEGAL_DOCUMENT ==
    <<"G","e","n","e","r","a","l"," ","L","e","g","a","l"," ","D","o","c","u","m","e","n","t">>

DESC ==
    [ unavailable |->
        <<"A","I"," ","m","o","d","e","l"," ","n","o","t"," ","a","v","a","i","l","a","b","l","e",
        " ","f","o","r"," ","d","e","t","a","i","l","e","d"," ","c","l","a","s","s","i","f","i",
        "c","a","t","i","o","n">>,
      default |->
        <<"L","e","g","a","l"," ","d","o","c","u","m","e","n","t"," ","a","n","a","l","y","s","i",
        "s">>,
      error |->
        <<"C","l","a","s","s","i","f","i","c","a","t","i","o","n"," ","e","r","r","o","r",":"," ">>,
      char_unavailable |->
        <<"D","o","c","u","m","e","n","t"," ","c","o","n","t","a","i","n","s"," ","l","e","g","a",
        "l"," ","t","e","r","m","i","n","o","l","o","g","y">>,
      char_error |->
        <<"D","o","c","u","m","e","n","t"," ","a","n","a","l","y","s","i","s"," ","f","a","i","l",
        "e","d">> ]

GENERAL_LEGAL_KNOWLEDGE ==
    <<"G","e","n","e","r","a","l"," ","l","e","g","a","l"," ","k","n","o","w","l","e","d","g",
      "e">>

KW ==
    [ what_is |->
        <<"w","h","a","t"," ","i","s">>,
      define |->
        <<"d","e","f","i","n","e">>,
      nda |->
        <<"n","d","a">>,
      non_disclosure |->
        <<"n","o","n","-","d","i","s","c","l","o","s","u","r","e">>,
      contract |->
        <<"c","o","n","t","r","a","c","t">>,
      clause |->
        <<"c","l","a","u","s","e">>,
      how_to |->
        <<"h","o","w"," ","t","o">>,
      simplify |->
        <<"s","i","m","p","l","i","f","y">>,
      summarize |->
        <<"s","u","m","m","a","r","i","z","e">>,
      summary |->
        <<"s","u","m","m","a","r","y">>,
      parties |->
        <<"p","a","r","t","i","e","s">>,
      who |->
        <<"w","h","o">>,
      obligation |->
        <<"o","b","l","i","g","a","t","i","o","n">>,
      responsibility |->
        <<"r","e","s","p","o","n","s","i","b","i","l","i","t","y">>,
      date |->
        <<"d","a","t","e">>,
      when |->
        <<"w","h","e","n">> ]

ANS ==
    [ nda |->
        <<"A","n"," ","N","D","A"," ","(","N","o","n","-","D","i","s","c","l","o","s","u","r","e",
        " ","A","g","r","e","e","m","e","n","t",")"," ","i","s"," ","a"," ","l","e","g","a","l",
        " ","c","o","n","t","r","a","c","t"," ","t","h","a","t"," ","p","r","e","v","e","n","t",
        "s"," ","p","a","r","t","i","e","s"," ","f","r","o","m"," ","s","h","a","r","i","n","g",
        " ","c","o","n","f","i","d","e","n","t","i","a","l"," ","i","n","f","o","r","m","a","t",
        "i","o","n"," ","w","i","t","h"," ","t","h","i","r","d"," ","p","a","r","t","i","e","s",
        ".">>,
      contract |->
        <<"A"," ","c","o","n","t","r","a","c","t"," ","i","s"," ","a"," ","l","e","g","a","l","l",
        "y"," ","b","i","n","d","i","n","g"," ","a","g","r","e","e","m","e","n","t"," ","b","e",
        "t","w","e","e","n"," ","t","w","o"," ","o","r"," ","m","o","r","e"," ","p","a","r","t",
        "i","e","s"," ","t","h","a","t"," ","c","r","e","a","t","e","s"," ","m","u","t","u","a",
        "l"," ","o","b","l","i","g","a","t","i","o","n","s"," ","e","n","f","o","r","c","e","a",
        "b","l","e"," ","b","y"," ","l","a","w",".">>,
      clause |->
        <<"A"," ","c","l","a","u","s","e"," ","i","s"," ","a"," ","s","p","e","c","i","f","i","c",
        " ","p","r","o","v","i","s","i","o","n"," ","o","r"," ","s","e","c","t","i","o","n"," ",
        "w","i","t","h","i","n"," ","a"," ","l","e","g","a","l"," ","d","o","c","u","m","e","n",
        "t"," ","t","h","a","t"," ","a","d","d","r","e","s","s","e","s"," ","a"," ","p","a","r",
        "t","i","c","u","l","a","r"," ","a","s","p","e","c","t"," ","o","f"," ","t","h","e"," ",
        "a","g","r","e","e","m","e","n","t",".">>,
      simplify |->
        <<"T","o"," ","s","i","m","p","l","i","f","y"," ","l","e","g","a","l"," ","l","a","n","g",
        "u","a","g","e",":"," ","1",")"," ","R","e","p","l","a","c","e"," ","c","o","m","p","l",
        "e","x"," ","t","e","r","m","s"," ","w","i","t","h"," ","e","v","e","r","y","d","a","y",
        " ","w","o","r","d","s",","," ","2",")"," ","B","r","e","a","k"," ","l","o","n","g"," ",
        "s","e","n","t","e","n","c","e","s"," ","i","n","t","o"," ","s","h","o","r","t","e","r",
        " ","o","n","e","s",","," ","3",")"," ","U","s","e"," ","a","c","t","i","v","e"," ","v",
        "o","i","c","e",","," ","4",")"," ","D","e","f","i","n","e"," ","t","e","c","h","n","i",
        "c","a","l"," ","t","e","r","m","s",".">>,
      upload_first |->
        <<"P","l","e","a","s","e"," ","u","p","l","o","a","d"," ","a"," ","d","o","c","u","m","e",
        "n","t"," ","f","i","r","s","t",","," ","t","h","e","n"," ","I"," ","c","a","n"," ","p",
        "r","o","v","i","d","e"," ","a"," ","d","e","t","a","i","l","e","d"," ","s","u","m","m",
        "a","r","y"," ","u","s","i","n","g"," ","A","I"," ","a","n","a","l","y","s","i","s",".">>,
      summary_head |->
        <<"S","u","m","m","a","r","y",":"," ">>,
      summary_tail |->
        <<".",".","."," ","(","T","h","i","s"," ","i","s"," ","a"," ","b","a","s","i","c"," ","s",
        "u","m","m","a","r","y","."," ","U","p","l","o","a","d"," ","a"," ","d","o","c","u","m",
        "e","n","t"," ","f","o","r"," ","d","e","t","a","i","l","e","d"," ","A","I"," ","a","n",
        "a","l","y","s","i","s",".",")">> ]

FB ==
    [ summary |->
        <<"I"," ","c","a","n"," ","h","e","l","p"," ","s","u","m","m","a","r","i","z","e"," ","d",
        "o","c","u","m","e","n","t","s",","," ","b","u","t"," ","t","h","e"," ","A","I"," ","m",
        "o","d","e","l"," ","i","s"," ","c","u","r","r","e","n","t","l","y"," ","l","o","a","d",
        "i","n","g","."," ","P","l","e","a","s","e"," ","t","r","y"," ","a","g","a","i","n"," ",
        "i","n"," ","a"," ","f","e","w"," ","m","o","m","e","n","t","s",","," ","o","r"," ","u",
        "p","l","o","a","d"," ","a"," ","d","o","c","u","m","e","n","t"," ","f","o","r"," ","r",
        "u","l","e","-","b","a","s","e","d"," ","a","n","a","l","y","s","i","s",".">>,
      parties |->
        <<"T","o"," ","i","d","e","n","t","i","f","y"," ","p","a","r","t","i","e","s"," ","i","n",
        " ","a"," ","l","e","g","a","l"," ","d","o","c","u","m","e","n","t",","," ","l","o","o",
        "k"," ","f","o","r"," ","n","a","m","e","s"," ","o","f"," ","i","n","d","i","v","i","d",
        "u","a","l","s",","," ","c","o","m","p","a","n","i","e","s",","," ","o","r"," ","o","r",
        "g","a","n","i","z","a","t","i","o","n","s"," ","m","e","n","t","i","o","n","e","d"," ",
        "i","n"," ","t","h","e"," ","b","e","g","i","n","n","i","n","g"," ","s","e","c","t","i",
        "o","n","s"," ","o","r"," ","s","i","g","n","a","t","u","r","e"," ","a","r","e","a","s",
        ".">>,
      obligation |->
        <<"L","e","g","a","l"," ","o","b","l","i","g","a","t","i","o","n","s"," ","a","r","e"," ",
        "t","y","p","i","c","a","l","l","y"," ","f","o","u","n","d"," ","i","n"," ","s","e","c",
        "t","i","o","n","s"," ","c","o","n","t","a","i","n","i","n","g"," ","w","o","r","d","s",
        " ","l","i","k","e"," ","'","s","h","a","l","l","'",","," ","'","m","u","s","t","'",",",
        " ","'","a","g","r","e","e","s"," ","t","o","'",","," ","o","r"," ","'","r","e","s","p",
        "o","n","s","i","b","l","e"," ","f","o","r","'",".">>,
      date |->
        <<"I","m","p","o","r","t","a","n","t"," ","d","a","t","e","s"," ","i","n"," ","l","e","g",
        "a","l"," ","d","o","c","u","m","e","n","t","s"," ","i","n","c","l","u","d","e"," ","e",
        "f","f","e","c","t","i","v","e"," ","d","a","t","e","s",","," ","e","x","p","i","r","a",
        "t","i","o","n"," ","d","a","t","e","s",","," ","a","n","d"," ","d","e","a","d","l","i",
        "n","e","s","."," ","L","o","o","k"," ","f","o","r"," ","d","a","t","e"," ","f","o","r",
        "m","a","t","s"," ","l","i","k","e"," ","M","M","/","D","D","/","Y","Y","Y","Y"," ","o",
        "r"," ","s","p","e","l","l","e","d","-","o","u","t"," ","d","a","t","e","s",".">>,
      loading |->
        <<"I","'","m"," ","s","t","i","l","l"," ","l","o","a","d","i","n","g"," ","t","h","e"," ",
        "A","I"," ","m","o","d","e","l"," ","f","o","r"," ","d","e","t","a","i","l","e","d"," ",
        "a","n","a","l","y","s","i","s","."," ","F","o","r"," ","i","m","m","e","d","i","a","t",
        "e"," ","h","e","l","p",","," ","t","r","y"," ","u","p","l","o","a","d","i","n","g"," ",
        "a"," ","d","o","c","u","m","e","n","t"," ","t","o"," ","u","s","e"," ","o","u","r"," ",
        "r","u","l","e","-","b","a","s","e","d"," ","a","n","a","l","y","s","i","s"," ","f","e",
        "a","t","u","r","e","s",".">> ]

(***************************************************************************)
(* The classification response parser of classify_document_with_ai         *)
(***************************************************************************)
DigitSeq == <<"0","1","2","3","4","5","6","7","8","9">>

DigitVal(c) == (CHOOSE k \in 1..10 : DigitSeq[k] = c) - 1

RECURSIVE Pow10(_)
Pow10(n) == IF n = 0 THEN 1 ELSE 10 * Pow10(n - 1)

\* the number a string of decimal digits denotes (0 for the empty string)
RECURSIVE DigitsValue(_)
DigitsValue(ds) ==
    IF Len(ds) = 0 THEN 0
    ELSE 10 * DigitsValue(SubSeq(ds, 1, Len(ds) - 1)) + DigitVal(ds[Len(ds)])

\* the end of the run of digits that starts at position i (i - 1 when none)
DigitRunEnd(s, i) ==
    IF i > Len(s) \/ s[i] \notin DigitChars THEN i - 1
    ELSE CHOOSE j \in i..Len(s) :
             /\ \A k \in i..j : s[k] \in DigitChars
             /\ (j = Len(s) \/ s[j + 1] \notin DigitChars)

\* re.search(r'(\d+\.?\d*)', s): the first match as [found, int, frac], the
\* digits before and after the optional point
FirstNumber(s) ==
    IF \A i \in 1..Len(s) : s[i] \notin DigitChars
    THEN [found |-> FALSE, int |-> <<>>, frac |-> <<>>]
    ELSE LET a == CHOOSE i \in 1..Len(s) :
                     s[i] \in DigitChars /\ \A j \in 1..(i - 1) : s[j] \notin DigitChars
             b == DigitRunEnd(s, a)
             point == b < Len(s) /\ s[b + 1] = "."
             c == IF point THEN DigitRunEnd(s, b + 2) ELSE b
         IN  [found |-> TRUE, int |-> SubSeq(s, a, b),
              frac |-> IF point THEN SubSeq(s, b + 2, c) ELSE <<>>]

\* a confidence is the exact fraction num / den
Fraction(n, d) == [num |-> n, den |-> d]

\* float(conf_match.group(1))
FloatOf(m) == Fraction(DigitsValue(m.int \o m.frac), Pow10(Len(m.frac)))

\* the value without the percentage heuristic
NotRescaled(v) == v

\* if conf_val > 1.0: conf_val = conf_val / 100.0
Rescale(v) == IF v.num > v.den THEN Fraction(v.num, v.den * 100) ELSE v

DefaultClassification ==
    [type |-> GENERAL_LEGAL_DOCUMENT, confidence |-> Fraction(5, 10),
     description |-> DESC.default, key_characteristics |-> <<>>]

FallbackClassification ==
    [type |-> GENERAL_LEGAL_DOCUMENT, confidence |-> Fraction(3, 10),
     description |-> DESC.unavailable, key_characteristics |-> <<DESC.char_unavailable>>]

ErrorClassification ==
    [type |-> GENERAL_LEGAL_DOCUMENT, confidence |-> Fraction(3, 10),
     description |-> DESC.error, key_characteristics |-> <<DESC.char_error>>]

\* one turn of the loop over the lines of the classification reply
ParseClassLine(result, raw) ==
    LET line == Strip(raw)
    IN  IF StartsWith(line, HDR.type) THEN
            LET doc_type == Strip(ReplaceEmpty(line, HDR.type))
            IN  IF doc_type # <<>> THEN [result EXCEPT !.type = doc_type] ELSE result
        ELSE IF StartsWith(line, HDR.confidence) THEN
            LET conf_match == FirstNumber(Strip(ReplaceEmpty(line, HDR.confidence)))
            IN  IF conf_match.found
                THEN [result EXCEPT !.confidence = Rescale(FloatOf(conf_match))]
                ELSE result
        ELSE IF StartsWith(line, HDR.description) THEN
            LET desc == Strip(ReplaceEmpty(line, HDR.description))
            IN  IF desc # <<>> THEN [result EXCEPT !.description = desc] ELSE result
        ELSE IF StartsWith(line, HDR.key_characteristics) THEN result
        ELSE IF StartsWith(line, <<"-">>) \/ StartsWith(line, <<BULLET>>) THEN
            LET char == Strip(LStripChars(line, {"-", BULLET}))
            IN  IF char # <<>>
                THEN [result EXCEPT !.key_characteristics = Append(@, char)]
                ELSE result
        ELSE result

RECURSIVE ParseClassLines(_, _)
ParseClassLines(result, lines) ==
    IF Len(lines) = 0 THEN result
    ELSE ParseClassLines(ParseClassLine(result, lines[1]), Tail(lines))

\* lines 277-318: the Classification parsed from the reply
ParseClassification(response) ==
    ParseClassLines(DefaultClassification, Split(response, <<"\n">>))

(***************************************************************************)
(* _try_simple_answer and _fallback_answer                                 *)
(***************************************************************************)
TrySimpleAnswer(question, context) ==
    LET q == StrLower(question)
    IN  IF Contains(q, KW.what_is) \/ Contains(q, KW.define) THEN
            IF Contains(q, KW.nda) \/ Contains(q, KW.non_disclosure) THEN ANS.nda
            ELSE IF Contains(q, KW.contract) THEN ANS.contract
            ELSE IF Contains(q, KW.clause) THEN ANS.clause
            ELSE <<>>
        ELSE IF Contains(q, KW.how_to) THEN
            IF Contains(q, KW.simplify) THEN ANS.simplify ELSE <<>>
        ELSE IF Contains(q, KW.summarize) THEN
            IF context # <<>>
            THEN LET sentences == Prefix(Split(context, <<".">>), 3)
                 IN  ANS.summary_head \o Join(sentences, <<".", " ">>) \o ANS.summary_tail
            ELSE ANS.upload_first
        ELSE <<>>

FallbackAnswer(question, context) ==
    LET q == StrLower(question)
    IN  IF Contains(q, KW.summarize) \/ Contains(q, KW.summary) THEN FB.summary
        ELSE IF Contains(q, KW.parties) \/ Contains(q, KW.who) THEN FB.parties
        ELSE IF Contains(q, KW.obligation) \/ Contains(q, KW.responsibility)
             THEN FB.obligation
        ELSE IF Contains(q, KW.date) \/ Contains(q, KW.when) THEN FB.date
        ELSE FB.loading

(***************************************************************************)
(* The re module: patterns as syntax trees, matched by backtracking        *)
(***************************************************************************)
Lit(str) == [op |-> "lit", str |-> str]

Set(chars) == [op |-> "set", chars |-> chars, neg |-> FALSE]

NotSet(chars) == [op |-> "set", chars |-> chars, neg |-> TRUE]

Cat(args) == [op |-> "cat", args |-> args]

Alt(args) == [op |-> "alt", args |-> args]

\* arg{lo,hi}, greedy
Rep(arg, lo, hi) == [op |-> "rep", arg |-> arg, lo |-> lo, hi |-> hi, inf |-> FALSE]

\* arg{lo,}, greedy
Many(arg, lo) == [op |-> "rep", arg |-> arg, lo |-> lo, hi |-> lo, inf |-> TRUE]

\* \b
WB == [op |-> "wb"]

RECURSIVE Flatten(_, _, _)
\* the lists n..m of a list of lists, end to end
Flatten(lists, n, m) ==
    IF n > m THEN <<>>
    ELSE IF n = m THEN lists[n]
    ELSE Flatten(lists, n, (n + m) \div 2) \o Flatten(lists, (n + m) \div 2 + 1, m)

\* the character c is in the class; ic: re.IGNORECASE
CharMatches(c, node, ic) ==
    (\/ c \in node.chars
     \/ ic /\ (LowerChar(c) \in node.chars \/ UpperChar(c) \in node.chars)) # node.neg

\* \b matches before s[i]
WordBoundary(s, i) ==
    (i > 1 /\ s[i - 1] \in WordChars) # (i <= Len(s) /\ s[i] \in WordChars)

\* a greedy repetition of a character class: the longest run first
RunEnds(node, s, i, ic) ==
    LET stop == CHOOSE j \in i..(Len(s) + 1) :
                    /\ j = Len(s) + 1 \/ ~CharMatches(s[j], node.arg, ic)
                    /\ \A q \in i..(j - 1) : CharMatches(s[q], node.arg, ic)
        top  == IF node.inf \/ stop - i < node.hi THEN stop - i ELSE node.hi
    IN  [k \in 1..(top - node.lo + 1) |-> i + top + 1 - k]

RECURSIVE Ends(_, _, _, _)
RECURSIVE SeqEnds(_, _, _, _, _)
RECURSIVE RepEnds(_, _, _, _, _)
\* the positions a match of the node that starts at s[i] may end before, in
\* the order the backtracking matcher tries them
Ends(node, s, i, ic) ==
    CASE node.op = "lit" ->
           IF /\ i + Len(node.str) - 1 <= Len(s)
              /\ \A k \in 1..Len(node.str) :
                    \/ s[i + k - 1] = node.str[k]
                    \/ ic /\ LowerChar(s[i + k - 1]) = LowerChar(node.str[k])
           THEN <<i + Len(node.str)>> ELSE <<>>
      [] node.op = "set" ->
           IF i <= Len(s) /\ CharMatches(s[i], node, ic) THEN <<i + 1>> ELSE <<>>
      [] node.op = "wb" -> IF WordBoundary(s, i) THEN <<i>> ELSE <<>>
      [] node.op = "cat" -> SeqEnds(node.args, 1, s, i, ic)
      [] node.op = "alt" ->
           Flatten([n \in 1..Len(node.args) |-> Ends(node.args[n], s, i, ic)],
                   1, Len(node.args))
      [] node.op = "rep" ->
           IF node.arg.op = "set" THEN RunEnds(node, s, i, ic)
           ELSE RepEnds(node, 0, s, i, ic)

\* the items k.. of a sequence of nodes
SeqEnds(args, k, s, i, ic) ==
    IF k > Len(args) THEN <<i>>
    ELSE LET first == Ends(args[k], s, i, ic)
         IN  Flatten([n \in 1..Len(first) |-> SeqEnds(args, k + 1, s, first[n], ic)],
                     1, Len(first))

\* a greedy repetition that has matched k times
RepEnds(node, k, s, i, ic) ==
    LET first == Ends(node.arg, s, i, ic)
        more  == IF node.inf \/ k < node.hi
                 THEN Flatten([n \in 1..Len(first) |->
                          IF first[n] > i THEN RepEnds(node, k + 1, s, first[n], ic)
                          ELSE <<>>], 1, Len(first))
                 ELSE <<>>
    IN  more \o (IF k >= node.lo THEN <<i>> ELSE <<>>)

RECURSIVE FindAllFrom(_, _, _, _)
\* the matches re.findall(pattern, s) finds from position pos on
FindAllFrom(node, s, pos, ic) ==
    LET starts == {p \in pos..(Len(s) + 1) : Ends(node, s, p, ic) # <<>>}
    IN  IF starts = {} THEN <<>>
        ELSE LET p == CHOOSE q \in starts : \A r \in starts : q <= r
                 e == Ends(node, s, p, ic)[1]
             IN  << Slice(s, p, e - 1) >>
                 \o FindAllFrom(node, s, IF e > p THEN e ELSE p + 1, ic)

\* the matches of every pattern of the list, pattern by pattern
FindAll(patterns, s, ic) ==
    Flatten([k \in 1..Len(patterns) |-> FindAllFrom(patterns[k], s, 1, ic)], 1, Len(patterns))

\* re.search(pattern, s) finds a match
Search(node, s, ic) == \E pos \in 1..(Len(s) + 1) : Ends(node, s, pos, ic) # <<>>

\* str.title()
TitleCase(s) ==
    [i \in 1..Len(s) |->
        IF i > 1 /\ s[i - 1] \in UpperChars \cup LowerChars
        THEN LowerChar(s[i]) ELSE UpperChar(s[i])]

\* the items of a list without the repetitions, by first occurrence
Distinct(items) ==
    LET firsts == {i \in 1..Len(items) : \A j \in 1..(i - 1) : items[j] # items[i]}
    IN  [k \in 1..Cardinality(firsts) |->
            items[CHOOSE i \in firsts : Cardinality({j \in firsts : j < i}) = k - 1]]

\* list(set(items)): the order a process iterates a set of strings in
\* depends on the hash seed of the process; three of the orders
HashSeeds == 0..2

ListOfSet(items, seed) ==
    LET d == Distinct(items)
        n == Len(d)
    IN  [k \in 1..n |->
            CASE seed = 0 -> d[k]
              [] seed = 1 -> d[n + 1 - k]
              [] OTHER    -> d[((k + (n \div 2) - 1) % n) + 1]]

(***************************************************************************)
(* The rule-based extractors of entities.py                                *)
(***************************************************************************)
party_patterns ==
    <<
       \* \b[A-Z][a-z]+ [A-Z][a-z]+(?:\s+[A-Z][a-z]+)*\b
       Cat(<<WB, Set(UpperChars), Many(Set(LowerChars), 1), Lit(<<" ">>), Set(UpperChars),
         Many(Set(LowerChars), 1), Many(Cat(<<Many(Set(Whitespace), 1), Set(UpperChars),
         Many(Set(LowerChars), 1)>>), 0), WB>>),
       \* \b[A-Z][A-Z\s&]+(?:LLC|Inc|Corp|Company|Ltd|LP|LLP)\b
       Cat(<<WB, Set(UpperChars), Many(Set(UpperChars \cup Whitespace \cup {"&"}), 1),
         Alt(<<Lit(<<"L","L","C">>), Lit(<<"I","n","c">>), Lit(<<"C","o","r","p">>),
         Lit(<<"C","o","m","p","a","n","y">>), Lit(<<"L","t","d">>), Lit(<<"L","P">>),
         Lit(<<"L","L","P">>)>>), WB>>),
       \* (?:Company|Corporation|LLC|Inc|Ltd|LP|LLP)(?:\s+[A-Z][a-z]+)*
       Cat(<<Alt(<<Lit(<<"C","o","m","p","a","n","y">>),
         Lit(<<"C","o","r","p","o","r","a","t","i","o","n">>), Lit(<<"L","L","C">>),
         Lit(<<"I","n","c">>), Lit(<<"L","t","d">>), Lit(<<"L","P">>),
         Lit(<<"L","L","P">>)>>), Many(Cat(<<Many(Set(Whitespace), 1), Set(UpperChars),
         Many(Set(LowerChars), 1)>>), 0)>>),
       \* (?:Party|Parties|Client|Contractor|Employee|Employer|Lessor|Lessee)(?:\s+[A-Z][a-z]+)*
       Cat(<<Alt(<<Lit(<<"P","a","r","t","y">>), Lit(<<"P","a","r","t","i","e","s">>),
         Lit(<<"C","l","i","e","n","t">>),
         Lit(<<"C","o","n","t","r","a","c","t","o","r">>),
         Lit(<<"E","m","p","l","o","y","e","e">>),
         Lit(<<"E","m","p","l","o","y","e","r">>), Lit(<<"L","e","s","s","o","r">>),
         Lit(<<"L","e","s","s","e","e">>)>>), Many(Cat(<<Many(Set(Whitespace), 1),
         Set(UpperChars), Many(Set(LowerChars), 1)>>), 0)>>) >>

date_patterns ==
    <<
       \* \b\d{1,2}[/-]\d{1,2}[/-]\d{2,4}\b
       Cat(<<WB, Rep(Set(DigitChars), 1, 2), Set({"/", "-"}), Rep(Set(DigitChars), 1, 2),
         Set({"/", "-"}), Rep(Set(DigitChars), 2, 4), WB>>),
       \* \b\d{4}[/-]\d{1,2}[/-]\d{1,2}\b
       Cat(<<WB, Rep(Set(DigitChars), 4, 4), Set({"/", "-"}), Rep(Set(DigitChars), 1, 2),
         Set({"/", "-"}), Rep(Set(DigitChars), 1, 2), WB>>),
       \* \b(?:January|February|March|April|May|June|July|August|September|October|November|December)\s+\d{1,2},?\s+\d{4}\b
       Cat(<<WB, Alt(<<Lit(<<"J","a","n","u","a","r","y">>),
         Lit(<<"F","e","b","r","u","a","r","y">>), Lit(<<"M","a","r","c","h">>),
         Lit(<<"A","p","r","i","l">>), Lit(<<"M","a","y">>), Lit(<<"J","u","n","e">>),
         Lit(<<"J","u","l","y">>), Lit(<<"A","u","g","u","s","t">>),
         Lit(<<"S","e","p","t","e","m","b","e","r">>),
         Lit(<<"O","c","t","o","b","e","r">>), Lit(<<"N","o","v","e","m","b","e","r">>),
         Lit(<<"D","e","c","e","m","b","e","r">>)>>), Many(Set(Whitespace), 1),
         Rep(Set(DigitChars), 1, 2), Rep(Lit(<<",">>), 0, 1), Many(Set(Whitespace), 1),
         Rep(Set(DigitChars), 4, 4), WB>>),
       \* \b\d{1,2}\s+(?:January|February|March|April|May|June|July|August|September|October|November|December)\s+\d{4}\b
       Cat(<<WB, Rep(Set(DigitChars), 1, 2), Many(Set(Whitespace), 1),
         Alt(<<Lit(<<"J","a","n","u","a","r","y">>),
         Lit(<<"F","e","b","r","u","a","r","y">>), Lit(<<"M","a","r","c","h">>),
         Lit(<<"A","p","r","i","l">>), Lit(<<"M","a","y">>), Lit(<<"J","u","n","e">>),
         Lit(<<"J","u","l","y">>), Lit(<<"A","u","g","u","s","t">>),
         Lit(<<"S","e","p","t","e","m","b","e","r">>),
         Lit(<<"O","c","t","o","b","e","r">>), Lit(<<"N","o","v","e","m","b","e","r">>),
         Lit(<<"D","e","c","e","m","b","e","r">>)>>), Many(Set(Whitespace), 1),
         Rep(Set(DigitChars), 4, 4), WB>>),
       \* \b(?:within|after|before|during)\s+\d+\s+(?:days|months|years)\b
       Cat(<<WB, Alt(<<Lit(<<"w","i","t","h","i","n">>), Lit(<<"a","f","t","e","r">>),
         Lit(<<"b","e","f","o","r","e">>), Lit(<<"d","u","r","i","n","g">>)>>),
         Many(Set(Whitespace), 1), Many(Set(DigitChars), 1), Many(Set(Whitespace), 1),
         Alt(<<Lit(<<"d","a","y","s">>), Lit(<<"m","o","n","t","h","s">>),
         Lit(<<"y","e","a","r","s">>)>>), WB>>) >>

monetary_patterns ==
    <<
       \* \$[\d,]+(?:\.\d{2})?
       Cat(<<Lit(<<"$">>), Many(Set(DigitChars \cup {","}), 1), Rep(Cat(<<Lit(<<".">>),
         Rep(Set(DigitChars), 2, 2)>>), 0, 1)>>),
       \* \b\d+(?:,\d{3})*(?:\.\d{2})?\s*dollars?\b
       Cat(<<WB, Many(Set(DigitChars), 1), Many(Cat(<<Lit(<<",">>), Rep(Set(DigitChars), 3,
         3)>>), 0), Rep(Cat(<<Lit(<<".">>), Rep(Set(DigitChars), 2, 2)>>), 0, 1),
         Many(Set(Whitespace), 0), Lit(<<"d","o","l","l","a","r">>), Rep(Lit(<<"s">>), 0,
         1), WB>>),
       \* \b(?:USD|EUR|GBP)\s*[\d,]+(?:\.\d{2})?\b
       Cat(<<WB, Alt(<<Lit(<<"U","S","D">>), Lit(<<"E","U","R">>), Lit(<<"G","B","P">>)>>),
         Many(Set(Whitespace), 0), Many(Set(DigitChars \cup {","}), 1),
         Rep(Cat(<<Lit(<<".">>), Rep(Set(DigitChars), 2, 2)>>), 0, 1), WB>>),
       \* \b(?:salary|wage|fee|payment|compensation|amount)\s*:?\s*\$?[\d,]+(?:\.\d{2})?\b
       Cat(<<WB, Alt(<<Lit(<<"s","a","l","a","r","y">>), Lit(<<"w","a","g","e">>),
         Lit(<<"f","e","e">>), Lit(<<"p","a","y","m","e","n","t">>),
         Lit(<<"c","o","m","p","e","n","s","a","t","i","o","n">>),
         Lit(<<"a","m","o","u","n","t">>)>>), Many(Set(Whitespace), 0), Rep(Lit(<<":">>),
         0, 1), Many(Set(Whitespace), 0), Rep(Lit(<<"$">>), 0, 1),
         Many(Set(DigitChars \cup {","}), 1), Rep(Cat(<<Lit(<<".">>), Rep(Set(DigitChars),
         2, 2)>>), 0, 1), WB>>),
       \* \b(?:per|each|every)\s+(?:hour|month|year|week)\s*:?\s*\$?[\d,]+(?:\.\d{2})?\b
       Cat(<<WB, Alt(<<Lit(<<"p","e","r">>), Lit(<<"e","a","c","h">>),
         Lit(<<"e","v","e","r","y">>)>>), Many(Set(Whitespace), 1),
         Alt(<<Lit(<<"h","o","u","r">>), Lit(<<"m","o","n","t","h">>),
         Lit(<<"y","e","a","r">>), Lit(<<"w","e","e","k">>)>>), Many(Set(Whitespace), 0),
         Rep(Lit(<<":">>), 0, 1), Many(Set(Whitespace), 0), Rep(Lit(<<"$">>), 0, 1),
         Many(Set(DigitChars \cup {","}), 1), Rep(Cat(<<Lit(<<".">>), Rep(Set(DigitChars),
         2, 2)>>), 0, 1), WB>>) >>

obligation_patterns ==
    <<
       \* (?:shall|must|will|agrees? to|required to|responsible for)\s+[^.]+[.]
       Cat(<<Alt(<<Lit(<<"s","h","a","l","l">>), Lit(<<"m","u","s","t">>),
         Lit(<<"w","i","l","l">>), Cat(<<Lit(<<"a","g","r","e","e">>), Rep(Lit(<<"s">>), 0,
         1), Lit(<<" ","t","o">>)>>), Lit(<<"r","e","q","u","i","r","e","d"," ","t","o">>),
         Lit(<<"r","e","s","p","o","n","s","i","b","l","e"," ","f","o","r">>)>>),
         Many(Set(Whitespace), 1), Many(NotSet({"."}), 1), Lit(<<".">>)>>),
       \* (?:obligation|duty|responsibility|requirement)\s+[^.]+[.]
       Cat(<<Alt(<<Lit(<<"o","b","l","i","g","a","t","i","o","n">>),
         Lit(<<"d","u","t","y">>),
         Lit(<<"r","e","s","p","o","n","s","i","b","i","l","i","t","y">>),
         Lit(<<"r","e","q","u","i","r","e","m","e","n","t">>)>>), Many(Set(Whitespace), 1),
         Many(NotSet({"."}), 1), Lit(<<".">>)>>),
       \* (?:Party|Employee|Contractor|Company)\s+(?:shall|must|will|agrees?)\s+[^.]+[.]
       Cat(<<Alt(<<Lit(<<"P","a","r","t","y">>), Lit(<<"E","m","p","l","o","y","e","e">>),
         Lit(<<"C","o","n","t","r","a","c","t","o","r">>),
         Lit(<<"C","o","m","p","a","n","y">>)>>), Many(Set(Whitespace), 1),
         Alt(<<Lit(<<"s","h","a","l","l">>), Lit(<<"m","u","s","t">>),
         Lit(<<"w","i","l","l">>), Cat(<<Lit(<<"a","g","r","e","e">>), Rep(Lit(<<"s">>), 0,
         1)>>)>>), Many(Set(Whitespace), 1), Many(NotSet({"."}), 1), Lit(<<".">>)>>) >>

legal_terms ==
    << <<"c","o","n","f","i","d","e","n","t","i","a","l","i","t","y">>,
       <<"n","o","n","-","d","i","s","c","l","o","s","u","r","e">>,
       <<"l","i","a","b","i","l","i","t","y">>,
       <<"i","n","d","e","m","n","i","f","i","c","a","t","i","o","n">>,
       <<"b","r","e","a","c","h">>,
       <<"t","e","r","m","i","n","a","t","i","o","n">>,
       <<"j","u","r","i","s","d","i","c","t","i","o","n">>,
       <<"g","o","v","e","r","n","i","n","g"," ","l","a","w">>,
       <<"f","o","r","c","e"," ","m","a","j","e","u","r","e">>,
       <<"a","r","b","i","t","r","a","t","i","o","n">>,
       <<"i","n","t","e","l","l","e","c","t","u","a","l"," ","p","r","o","p","e","r","t","y">>,
       <<"c","o","p","y","r","i","g","h","t">>,
       <<"t","r","a","d","e","m","a","r","k">>,
       <<"p","a","t","e","n","t">>,
       <<"t","r","a","d","e"," ","s","e","c","r","e","t">>,
       <<"w","a","r","r","a","n","t","y">>,
       <<"g","u","a","r","a","n","t","e","e">>,
       <<"r","e","p","r","e","s","e","n","t","a","t","i","o","n">>,
       <<"c","o","v","e","n","a","n","t">>,
       <<"c","o","n","s","i","d","e","r","a","t","i","o","n">> >>

extract_parties(text, seed) ==
    LET parties == FindAll(party_patterns, text, TRUE)
        kept    == SelectSeq(parties, LAMBDA p : Len(Strip(p)) > 3)
    IN  Prefix(ListOfSet([k \in 1..Len(kept) |-> Strip(kept[k])], seed), 5)

extract_dates(text, seed) ==
    Prefix(ListOfSet(FindAll(date_patterns, text, TRUE), seed), 5)

extract_monetary_values(text, seed) ==
    Prefix(ListOfSet(FindAll(monetary_patterns, text, TRUE), seed), 5)

extract_obligations(text) ==
    LET matches     == FindAll(obligation_patterns, text, TRUE)
        obligations == [k \in 1..Len(matches) |-> Strip(matches[k])]
    IN  Prefix(SelectSeq(obligations, LAMBDA obs : Len(obs) > 20 /\ Len(obs) < 200), 5)

extract_legal_terms(text) ==
    LET found == SelectSeq(legal_terms,
                           LAMBDA term : Search(Cat(<<WB, Lit(term), WB>>), text, TRUE))
    IN  Prefix([k \in 1..Len(found) |-> TitleCase(found[k])], 8)

extract_entities_rule_based(text, seed) ==
    [parties         |-> extract_parties(text, seed),
     dates           |-> extract_dates(text, seed),
     monetary_values |-> extract_monetary_values(text, seed),
     obligations     |-> extract_obligations(text),
     legal_terms     |-> extract_legal_terms(text)]

SAMPLE ==
    [ text |->
        <<"P","a","r","t","y"," ","s","h","a","l","l"," ","p","a","y",".">>,
      q_define |->
        <<"W","h","a","t"," ","i","s"," ","a"," ","c","o","n","t","r","a","c","t","?">>,
      q_open |->
        <<"W","h","o"," ","p","a","y","s","?">>,
      completion_short |->
        <<" ","o","k"," ">>,
      completion_reply |->
        <<"P","A","R","T","I","E","S",":"," ","A","c","m","e","\n","D","A","T","E","S",":","\n","-",
        " ","2","0","2","4","\n","T","y","p","e",":"," ","L","e","a","s","e"," ","A","g","r","e",
        "e","m","e","n","t","\n","C","o","n","f","i","d","e","n","c","e",":"," ","8","5","%">> ]


(***************************************************************************)
(* The service and its callers.  A thread serves one request at a time:    *)
(* get_granite_service(), then one operation of the service.               *)
(***************************************************************************)
NumThreads == 2

Threads == 1..NumThreads

Operations ==
    {"generate_response", "simplify_clause", "extract_entities_with_ai",
     "classify_document_with_ai", "answer_question"}

\* the requests the callers make: an operation, its text (prompt, clause,
\* document or question) and, for answer_question, the context
Requests ==
    {[op |-> o, text |-> SAMPLE.text, context |-> <<>>] :
        o \in Operations \ {"answer_question"}}
    \cup {[op |-> "answer_question", text |-> SAMPLE.q_define, context |-> <<>>],
          [op |-> "answer_question", text |-> SAMPLE.q_open, context |-> SAMPLE.text]}

NoRequest == [op |-> None, text |-> <<>>, context |-> <<>>]

\* what the generation pipeline may produce after the echoed prompt
Completions == {<<>>, SAMPLE.completion_short, SAMPLE.completion_reply}

VARIABLES
    granite_service,   \* the module global: None or the service instance
    model_loaded,      \* self.model_loaded
    tokenizer,         \* self.tokenizer is set
    model,             \* self.model is set
    pipeline,          \* self.pipeline is set
    pc,                \* per thread: where it is in its request
    req,               \* per thread: the request it serves
    inGen,             \* per thread: inside generate_response
    gen,               \* per thread: what its generate_response call did
    ret,               \* per thread: what the operation returned
    failed             \* "failed": some _initialize_model has ended in its
                       \* except branch; "settled": and since then a request
                       \* arrived while no other was being served

svars == <<granite_service, model_loaded, tokenizer, model, pipeline,
           pc, req, inGen, gen, ret, failed>>

\* The pure functions of the code are applied to inputs of their own:
VARIABLES
    full_response,     \* generate_response: outputs[0]['generated_text']
    response,          \* generate_response: the value returned for it
    layout,            \* extract_entities_with_ai: how the reply is laid out
    reply,             \* extract_entities_with_ai: the text to parse
    entities,          \* extract_entities_with_ai: the EntitySet parsed
    hashseed,          \* the hash seed of the running Python process
    ai_entities,       \* merge_entity_results: first argument
    rule_entities,     \* merge_entity_results: second argument
    merged,            \* merge_entity_results: the value returned
    text,              \* extract_entities_rule_based: the document text
    extracted,         \* extract_entities_rule_based: the value returned
    earlier,           \* what an earlier process returned for the same text
    doc_type,          \* classify_document_with_ai: the text after 'Type:'
    conf_str,          \* classify_document_with_ai: the text after 'Confidence:'
    classification,    \* classify_document_with_ai: the Classification parsed
    question,          \* _try_simple_answer: the question
    context,           \* _try_simple_answer: the context
    simple_answers     \* answer_question line 333: what _try_simple_answer gave

gvars == <<full_response, response>>

pvars == <<layout, reply, entities>>

mvars == <<ai_entities, rule_entities, merged>>

rvars == <<text, extracted, earlier>>

cvars == <<doc_type, conf_str, classification>>

qvars == <<question, context, simple_answers>>

vars == <<svars, gvars, pvars, hashseed, mvars, rvars, cvars, qvars>>

\* a value not computed yet, and a computed value
Pending == [set |-> FALSE, val |-> <<>>]

Value(v) == [set |-> TRUE, val |-> v]

\* the variables of the pure functions while the service is modelled, and
\* the service while a pure function is
NoLayout == [pre |-> "none", secs |-> <<>>]

NoCall ==
    /\ full_response = <<>> /\ response = Pending
    /\ layout = NoLayout /\ reply = <<>> /\ entities = Pending
    /\ hashseed = 0
    /\ ai_entities = EmptyEntities /\ rule_entities = EmptyEntities
    /\ merged = Pending
    /\ text = <<>> /\ extracted = Pending /\ earlier = Pending
    /\ doc_type = <<>> /\ conf_str = <<>> /\ classification = Pending
    /\ question = <<>> /\ context = <<>> /\ simple_answers = Pending

handles == <<model_loaded, tokenizer, model, pipeline>>

\* called: generate_response was entered; loaded: it found the model loaded
\* and the pipeline set; invoked: it called the pipeline; error: that call
\* raised; status, out: how it ended and the string it returned
NoGen == [called |-> FALSE, loaded |-> FALSE, invoked |-> FALSE, error |-> FALSE,
          status |-> "none", out |-> <<>>]

NoRet == [kind |-> "none", txt |-> <<>>, ents |-> EmptyEntities,
          cls |-> DefaultClassification]

StrRet(s) == [NoRet EXCEPT !.kind = "str", !.txt = s]

EntRet(e) == [NoRet EXCEPT !.kind = "entities", !.ents = e]

ClsRet(c) == [NoRet EXCEPT !.kind = "classification", !.cls = c]

Raised == [NoRet EXCEPT !.kind = "raised"]

InitPcs == {"init_acquire", "init_done"}

\* thread t is executing _initialize_model
InInit(t) == pc[t] \in InitPcs

\* GraniteLLMService.__init__ and the module global before the first request
ServiceInit ==
    /\ granite_service = None
    /\ model_loaded = FALSE
    /\ tokenizer = FALSE
    /\ model = FALSE
    /\ pipeline = FALSE
    /\ pc = [t \in Threads |-> "idle"]
    /\ req = [t \in Threads |-> NoRequest]
    /\ inGen = [t \in Threads |-> FALSE]
    /\ gen = [t \in Threads |-> NoGen]
    /\ ret = [t \in Threads |-> NoRet]
    /\ failed = "no"

\* the prompt each operation hands to generate_response
BuildPrompt(r) ==
    CASE r.op = "generate_response" -> r.text
      [] r.op = "simplify_clause" ->
             PROMPT.simplify_head \o r.text \o PROMPT.simplify_tail
      [] r.op = "extract_entities_with_ai" ->
             PROMPT.entity_head \o Prefix(r.text, 2000) \o PROMPT.entity_tail
      [] r.op = "classify_document_with_ai" ->
             PROMPT.classify_head \o Prefix(r.text, 1500) \o PROMPT.classify_tail
      [] r.op = "answer_question" ->
             PROMPT.answer_head
             \o (IF r.context # <<>> THEN Prefix(r.context, 1000)
                 ELSE GENERAL_LEGAL_KNOWLEDGE)
             \o PROMPT.answer_mid \o r.text \o PROMPT.answer_tail

\* the texts outputs[0]['generated_text'] may hold: the prompt and a completion
GeneratedTexts(prompt) == {FormatPrompt(prompt) \o c : c \in Completions}

\* the test of line 91 without the flag
PipelineMissing == ~pipeline

\* generate_response line 91: if not self.model_loaded or not self.pipeline
ModelUnavailable == ~model_loaded \/ ~pipeline

\* generate_response line 92
OnUnavailable == [status |-> "returned", out |-> MSG.not_available]

\* the generation error left to the outer except branch of lines 125-127
OnGenerationErrorOuter == [status |-> "returned", out |-> MSG.outer_error]

\* generate_response lines 121-123: except Exception as gen_error
OnGenerationError == [status |-> "returned", out |-> MSG.gen_error]

\* generate_response lines 111-119
OnGenerated(generated_text) ==
    [status |-> "returned", out |-> ReplyOf(generated_text)]

\* what each derived operation would return without a check of its own,
\* from the 'Model not available' message of generate_response
FallbackOfGeneration(r) ==
    CASE r.op = "simplify_clause" -> StrRet(MSG.not_available)
      [] r.op = "extract_entities_with_ai" -> EntRet(EmptyEntities)
      [] r.op = "classify_document_with_ai" -> ClsRet(DefaultClassification)
      [] r.op = "answer_question" -> StrRet(MSG.not_available)

\* the static payload of each derived operation when the model is not loaded
Fallback(r) ==
    CASE r.op = "simplify_clause" ->
             StrRet(MSG.simplified_head \o Prefix(r.text, 200) \o MSG.simplified_tail)
      [] r.op = "extract_entities_with_ai" -> EntRet(EmptyEntities)
      [] r.op = "classify_document_with_ai" -> ClsRet(FallbackClassification)
      [] r.op = "answer_question" -> StrRet(FallbackAnswer(r.text, r.context))

\* the outer except branch of each derived operation
OnException(r) ==
    CASE r.op = "simplify_clause" -> StrRet(MSG.simplify_error)
      [] r.op = "extract_entities_with_ai" -> EntRet(EmptyEntities)
      [] r.op = "classify_document_with_ai" -> ClsRet(ErrorClassification)
      [] r.op = "answer_question" -> StrRet(FallbackAnswer(r.text, r.context))

\* what the operation returns once its generate_response call has ended as g
Complete(r, g) ==
    IF g.status = "raised"
    THEN IF r.op = "generate_response" THEN Raised ELSE OnException(r)
    ELSE CASE r.op = "generate_response" -> StrRet(g.out)
           [] r.op = "simplify_clause" -> StrRet(g.out)
           [] r.op = "extract_entities_with_ai" -> EntRet(ParseEntities(g.out))
           [] r.op = "classify_document_with_ai" ->
                  ClsRet(ParseClassification(g.out))
           [] r.op = "answer_question" -> StrRet(g.out)

\* every way a successful pipeline call can end, for each request: the value
\* of generate_response and the value of the operation
Generations ==
    [r \in Requests |->
        {[g |-> OnGenerated(f), r |-> Complete(r, OnGenerated(f))] :
            f \in GeneratedTexts(BuildPrompt(r))}]

\* what each request returns when generate_response finds the model
\* unavailable, and when the pipeline call raises
Endings ==
    [r \in Requests |->
        [unavailable |-> Complete(r, OnUnavailable),
         error       |-> Complete(r, OnGenerationError)]]

\* the shortcut answer of each request ("" for the other operations)
SimpleAnswers ==
    [r \in Requests |->
        IF r.op = "answer_question" THEN TrySimpleAnswer(r.text, r.context)
        ELSE <<>>]

\* the values the operations return without generating
Fallbacks ==
    [r \in Requests |->
        IF r.op = "generate_response" THEN NoRet ELSE Fallback(r)]

\* a request whose operation loads the model before anything else
RequestLoadsFirst(t) ==
    /\ pc[t] = "idle"
    /\ granite_service' = "GraniteLLMService"
    /\ \E r \in Requests :
          /\ req' = [req EXCEPT ![t] = r]
          /\ inGen' = [inGen EXCEPT ![t] = (r.op = "generate_response")]
    /\ pc' = [pc EXCEPT ![t] = "ensure"]
    /\ failed' = IF failed = "failed" /\ (\A u \in Threads : pc[u] = "idle")
                 THEN "settled" ELSE failed
    /\ UNCHANGED <<model_loaded, tokenizer, model, pipeline, gen, ret>>
    /\ UNCHANGED <<gvars, pvars, hashseed, mvars, rvars, cvars, qvars>>

\* a request arrives: the handler calls get_granite_service(), which creates
\* the instance when the global is None, and enters the operation;
\* answer_question returns at once when _try_simple_answer has an answer
Request(t) ==
    /\ pc[t] = "idle"
    /\ granite_service' = "GraniteLLMService"
    /\ \E r \in Requests :
          /\ req' = [req EXCEPT ![t] = r]
          /\ inGen' = [inGen EXCEPT ![t] = (r.op = "generate_response")]
          /\ IF SimpleAnswers[r] # <<>>
             THEN /\ ret' = [ret EXCEPT ![t] = StrRet(SimpleAnswers[r])]
                  /\ pc' = [pc EXCEPT ![t] = "done"]
             ELSE /\ ret' = ret
                  /\ pc' = [pc EXCEPT ![t] = "ensure"]
    /\ failed' = IF failed = "failed" /\ (\A u \in Threads : pc[u] = "idle")
                 THEN "settled" ELSE failed
    /\ UNCHANGED <<model_loaded, tokenizer, model, pipeline, gen>>
    /\ UNCHANGED <<gvars, pvars, hashseed, mvars, rvars, cvars, qvars>>

\* _ensure_model_loaded: if not self.model_loaded: self._initialize_model()
NeedsLoad == ~model_loaded

EnsureModelLoaded(t) ==
    /\ pc[t] = "ensure"
    /\ pc' = [pc EXCEPT ![t] = IF NeedsLoad THEN "init_acquire" ELSE "check"]
    /\ UNCHANGED <<granite_service, model_loaded, tokenizer, model, pipeline,
                   req, inGen, gen, ret, failed>>
    /\ UNCHANGED <<gvars, pvars, hashseed, mvars, rvars, cvars, qvars>>

\* _initialize_model lines 55-76: the tokenizer, the model and the pipeline
\* are acquired and assigned
InitAcquire(t) ==
    /\ pc[t] = "init_acquire"
    /\ tokenizer' = TRUE
    /\ model' = TRUE
    /\ pipeline' = TRUE
    /\ pc' = [pc EXCEPT ![t] = "init_done"]
    /\ UNCHANGED <<granite_service, model_loaded,
                   req, inGen, gen, ret, failed>>
    /\ UNCHANGED <<gvars, pvars, hashseed, mvars, rvars, cvars, qvars>>

\* _initialize_model line 79: self.model_loaded = True
InitDone(t) ==
    /\ pc[t] = "init_done"
    /\ model_loaded' = TRUE
    /\ pc' = [pc EXCEPT ![t] = "check"]
    /\ UNCHANGED <<granite_service, tokenizer, model, pipeline,
                   req, inGen, gen, ret, failed>>
    /\ UNCHANGED <<gvars, pvars, hashseed, mvars, rvars, cvars, qvars>>

\* _initialize_model lines 81-84: one of the three acquisitions raised after
\* the handles before it were assigned; the except branch sets
\* self.model_loaded = False and swallows the exception
InitFail(t) ==
    /\ pc[t] = "init_acquire"
    /\ \E got \in 0..2 :
          /\ tokenizer' = (tokenizer \/ got >= 1)
          /\ model' = (model \/ got >= 2)
    /\ model_loaded' = FALSE
    /\ failed' = IF failed = "no" THEN "failed" ELSE failed
    /\ pc' = [pc EXCEPT ![t] = "check"]
    /\ UNCHANGED <<granite_service, pipeline, req, inGen, gen, ret>>
    /\ UNCHANGED <<gvars, pvars, hashseed, mvars, rvars, cvars, qvars>>

\* the derived operations: if not self.model_loaded: return the fallback,
\* else build the prompt and call generate_response
OperationCheck(t) ==
    /\ pc[t] = "check"
    /\ ~inGen[t]
    /\ IF ~model_loaded
       THEN /\ ret' = [ret EXCEPT ![t] = Fallbacks[req[t]]]
            /\ pc' = [pc EXCEPT ![t] = "done"]
            /\ inGen' = inGen
       ELSE /\ inGen' = [inGen EXCEPT ![t] = TRUE]
            /\ pc' = [pc EXCEPT ![t] = "ensure"]
            /\ ret' = ret
    /\ UNCHANGED <<granite_service, model_loaded, tokenizer, model, pipeline,
                   req, gen, failed>>
    /\ UNCHANGED <<gvars, pvars, hashseed, mvars, rvars, cvars, qvars>>

\* generate_response after self._ensure_model_loaded()
GenerateCheck(t) ==
    /\ pc[t] = "check"
    /\ inGen[t]
    /\ LET seen == model_loaded /\ pipeline
       IN  IF ModelUnavailable
           THEN LET g == OnUnavailable
                IN  /\ gen' = [gen EXCEPT ![t] =
                                  [called |-> TRUE, loaded |-> seen, invoked |-> FALSE,
                                   error |-> FALSE, status |-> g.status, out |-> g.out]]
                    /\ ret' = [ret EXCEPT ![t] = Endings[req[t]].unavailable]
                    /\ pc' = [pc EXCEPT ![t] = "done"]
           ELSE /\ gen' = [gen EXCEPT ![t] =
                              [called |-> TRUE, loaded |-> seen, invoked |-> FALSE,
                               error |-> FALSE, status |-> "none", out |-> <<>>]]
                /\ ret' = ret
                /\ pc' = [pc EXCEPT ![t] = "pipeline"]
    /\ UNCHANGED <<granite_service, model_loaded, tokenizer, model, pipeline,
                   req, inGen, failed>>
    /\ UNCHANGED <<gvars, pvars, hashseed, mvars, rvars, cvars, qvars>>

\* self.pipeline(formatted_prompt, ...) returns a text
Generate(t) ==
    /\ pc[t] = "pipeline"
    /\ \E x \in Generations[req[t]] :
          /\ gen' = [gen EXCEPT ![t].invoked = TRUE,
                                ![t].status = x.g.status, ![t].out = x.g.out]
          /\ ret' = [ret EXCEPT ![t] = x.r]
    /\ pc' = [pc EXCEPT ![t] = "done"]
    /\ UNCHANGED <<granite_service, model_loaded, tokenizer, model, pipeline,
                   req, inGen, failed>>
    /\ UNCHANGED <<gvars, pvars, hashseed, mvars, rvars, cvars, qvars>>

\* self.pipeline(...) or the reading of its output raises
GenerateRaises(t) ==
    /\ pc[t] = "pipeline"
    /\ LET g == OnGenerationError
       IN  /\ gen' = [gen EXCEPT ![t].invoked = TRUE, ![t].error = TRUE,
                                 ![t].status = g.status, ![t].out = g.out]
           /\ ret' = [ret EXCEPT ![t] = Endings[req[t]].error]
    /\ pc' = [pc EXCEPT ![t] = "done"]
    /\ UNCHANGED <<granite_service, model_loaded, tokenizer, model, pipeline,
                   req, inGen, failed>>
    /\ UNCHANGED <<gvars, pvars, hashseed, mvars, rvars, cvars, qvars>>

\* the handler has returned; the thread takes the next request
Finish(t) ==
    /\ pc[t] = "done"
    /\ pc' = [pc EXCEPT ![t] = "idle"]
    /\ req' = [req EXCEPT ![t] = NoRequest]
    /\ inGen' = [inGen EXCEPT ![t] = FALSE]
    /\ gen' = [gen EXCEPT ![t] = NoGen]
    /\ ret' = [ret EXCEPT ![t] = NoRet]
    /\ UNCHANGED <<granite_service, model_loaded, tokenizer, model, pipeline, failed>>
    /\ UNCHANGED <<gvars, pvars, hashseed, mvars, rvars, cvars, qvars>>



SNext ==
    \E t \in Threads :
        \/ Request(t)
        \/ EnsureModelLoaded(t)
        \/ InitAcquire(t)
        \/ InitDone(t)
        \/ InitFail(t)
        \/ OperationCheck(t)
        \/ GenerateCheck(t)
        \/ Generate(t)
        \/ GenerateRaises(t)
        \/ Finish(t)

SInit == ServiceInit /\ NoCall

Spec == SInit /\ [][SNext]_vars

(***************************************************************************)
(* generate_response applied to generated texts                            *)
(***************************************************************************)
\* the pieces the generated texts are made of: the head of the turn marker,
\* which a line feed completes, white space, a text of 10 characters and one
\* of 9
TextPieces ==
    << <<"<","|","a","s","s","i","s","t","a","n","t","|",">">>,
       <<"\n">>,
       <<" ">>,
       <<"C","l","a","u","s","e"," ","o","n","e">>,
       <<"C","l","a","u","s","e"," ","w","e">> >>

MaxPieces == 4

RECURSIVE PieceTexts(_)
\* the concatenations of n pieces
PieceTexts(n) ==
    IF n = 0 THEN {<<>>}
    ELSE {t \o TextPieces[k] : t \in PieceTexts(n - 1), k \in 1..Len(TextPieces)}

FullResponses == UNION {PieceTexts(n) : n \in 0..MaxPieces}

GInit ==
    /\ ServiceInit
    /\ full_response \in FullResponses
    /\ response = Pending
    /\ layout = NoLayout /\ reply = <<>> /\ entities = Pending
    /\ hashseed = 0
    /\ ai_entities = EmptyEntities /\ rule_entities = EmptyEntities
    /\ merged = Pending
    /\ text = <<>> /\ extracted = Pending /\ earlier = Pending
    /\ doc_type = <<>> /\ conf_str = <<>> /\ classification = Pending
    /\ question = <<>> /\ context = <<>> /\ simple_answers = Pending

\* generate_response lines 111-119 on the text the pipeline returned
ExtractResponse ==
    /\ ~response.set
    /\ response' = Value(ReplyOf(full_response))
    /\ UNCHANGED <<svars, full_response, pvars, hashseed, mvars, rvars, cvars, qvars>>

GNext == ExtractResponse

GenSpec == GInit /\ [][GNext]_vars

\* the text after the last turn marker of s (all of s when it has none)
AfterLastMarker(s) ==
    IF Contains(s, TURN_MARKER)
    THEN LET i == CHOOSE i \in 1..Len(s) :
                     /\ MatchAt(s, TURN_MARKER, i)
                     /\ \A j \in (i + 1)..Len(s) : ~MatchAt(s, TURN_MARKER, j)
         IN  SubSeq(s, i + Len(TURN_MARKER), Len(s))
    ELSE s

\* r is s without its leading and trailing whitespace
IsStripped(r, s) ==
    \E a, b \in 0..Len(s) :
        /\ a + b <= Len(s)
        /\ r = SubSeq(s, a + 1, Len(s) - b)
        /\ \A i \in 1..a : s[i] \in Whitespace
        /\ \A i \in (Len(s) - b + 1)..Len(s) : s[i] \in Whitespace
        /\ r = <<>> \/ (r[1] \notin Whitespace /\ r[Len(r)] \notin Whitespace)

\* C6: after a successful generation only the stripped text after the last
\* turn marker counts: when it is empty or shorter than 10 characters the
\* 'try a more specific question' message is returned, else exactly that text
ReplyIsAssistantText ==
    response.set =>
        LET tail == AfterLastMarker(full_response)
        IN  /\ Len(response.val) >= 10
            /\ IF response.val = MSG.too_short
               THEN \E r \in {SubSeq(tail, a, b) : a \in 1..(Len(tail) + 1), b \in 0..Len(tail)} :
                        IsStripped(r, tail) /\ Len(r) < 10
               ELSE IsStripped(response.val, tail)

\* a text of 9 characters after the marker, with a longer text before it,
\* was answered by the message
ShortTailAnswered ==
    /\ response.set
    /\ full_response = TextPieces[4] \o TURN_MARKER \o TextPieces[5]
    /\ response.val = MSG.too_short

(***************************************************************************)
(* The entity response parser applied to replies                           *)
(***************************************************************************)
\* the items a reply lists for a category: the initial of the category and
\* a digit
ItemOf(cat, n) ==
    <<UpperChar(<<"p", "d", "m", "o", "l">>[CHOOSE k \in 1..5 : Categories[k] = cat]),
      DigitSeq[n + 1]>>

\* the ways a section lists its items: "inline", "bullets" and "mixed" list
\* two items; "placeholder" repeats the placeholder of the prompt template
\* after the header and lists one item on a bullet line
Forms == {"inline", "bullets", "mixed", "placeholder"}

\* the lines of a section
SectionLines(sec) ==
    LET h == HDR[sec.cat]
        a == ItemOf(sec.cat, 1)
        b == ItemOf(sec.cat, 2)
    IN  CASE sec.form = "inline" -> <<h \o <<" ">> \o a \o <<",", " ">> \o b>>
          [] sec.form = "bullets" -> <<h, <<"-", " ">> \o a, <<BULLET, " ">> \o b>>
          [] sec.form = "mixed" -> <<h \o <<" ">> \o a, <<"-", " ">> \o b>>
          [] sec.form = "placeholder" ->
                 <<h \o <<" ">> \o PH[sec.cat], <<"-", " ">> \o a>>

\* what a reply may say before its first section
PreambleLines(pre) ==
    CASE pre = "none" -> <<>>
      [] pre = "prose" -> << <<"H","e","r","e"," ","i","s",":">> >>
      [] pre = "dash" -> << <<"-", " ", "X", "1">> >>
      [] pre = "bullet" -> << <<BULLET, " ", "X", "1">> >>

RECURSIVE AllSectionLines(_)
AllSectionLines(secs) ==
    IF Len(secs) = 0 THEN <<>>
    ELSE SectionLines(secs[1]) \o AllSectionLines(Tail(secs))

\* the text of a reply
Render(lay) == Join(PreambleLines(lay.pre) \o AllSectionLines(lay.secs), <<"\n">>)

MaxSections == 2

RECURSIVE SectionSeqs(_)
\* the sequences of n sections of different categories
SectionSeqs(n) ==
    IF n = 0 THEN {<<>>}
    ELSE {Append(q, [cat |-> c, form |-> f]) :
            q \in SectionSeqs(n - 1),
            c \in CategorySet, f \in Forms}

Layouts ==
    {[pre |-> p, secs |-> q] :
        p \in {"none", "prose", "dash", "bullet"},
        q \in {x \in UNION {SectionSeqs(n) : n \in 0..MaxSections} :
                  \A i, j \in 1..Len(x) : i # j => x[i].cat # x[j].cat}}

PInit ==
    /\ ServiceInit
    /\ full_response = <<>> /\ response = Pending
    /\ layout \in Layouts
    /\ reply = Render(layout)
    /\ entities = Pending
    /\ hashseed = 0
    /\ ai_entities = EmptyEntities /\ rule_entities = EmptyEntities
    /\ merged = Pending
    /\ text = <<>> /\ extracted = Pending /\ earlier = Pending
    /\ doc_type = <<>> /\ conf_str = <<>> /\ classification = Pending
    /\ question = <<>> /\ context = <<>> /\ simple_answers = Pending

\* extract_entities_with_ai lines 178-228 on the reply
ParseReply ==
    /\ ~entities.set
    /\ entities' = Value(ParseEntities(reply))
    /\ UNCHANGED <<svars, gvars, layout, reply, hashseed, mvars, rvars, cvars, qvars>>

PNext == ParseReply

ParseSpec == PInit /\ [][PNext]_vars

\* the layout without its i-th section
WithoutSection(lay, i) ==
    [lay EXCEPT !.secs = SubSeq(@, 1, i - 1) \o SubSeq(@, i + 1, Len(@))]

\* C10: a reply in which one section (header and content) is missing
\* entirely parses to an EntitySet in which that category is empty and every
\* other category holds what it holds when the section is present; all five
\* categories are always present
MissingSectionLeavesOthers ==
    entities.set =>
        /\ DOMAIN entities.val = CategorySet
        /\ \A i \in 1..Len(layout.secs) :
              LET less == ParseEntities(Render(WithoutSection(layout, i)))
                  c    == layout.secs[i].cat
              IN  /\ DOMAIN less = CategorySet
                  /\ less[c] = <<>>
                  /\ \A d \in CategorySet \ {c} : less[d] = entities.val[d]

\* a reply with a parties section and a dates section given as bullets was
\* parsed, and both categories hold their items
TwoSectionsParsed ==
    /\ entities.set
    /\ layout = [pre |-> "none",
                 secs |-> <<[cat |-> "parties", form |-> "inline"],
                            [cat |-> "dates", form |-> "bullets"]>>]
    /\ entities.val["parties"] = <<ItemOf("parties", 1), ItemOf("parties", 2)>>
    /\ entities.val["dates"] = <<ItemOf("dates", 1), ItemOf("dates", 2)>>

\* C11: the placeholder of the prompt template never appears in the output:
\* a header line that carries the placeholder of its section as its value
\* gives the category no item, so the category holds only the item of the
\* bullet line that follows, and no category holds a piece of a placeholder
PlaceholderGivesNoItem ==
    entities.set =>
        /\ \A i \in 1..Len(layout.secs) :
              layout.secs[i].form = "placeholder" =>
                  LET c == layout.secs[i].cat
                  IN  /\ Range(entities.val[c]) \subseteq {ItemOf(c, 1)}
                      /\ layout.pre # "bullet" =>
                            entities.val[c] = <<ItemOf(c, 1)>>
        /\ \A c \in CategorySet : \A k \in 1..Len(entities.val[c]) :
              ~Contains(entities.val[c][k], <<"[">>)

\* a reply whose obligations header carries the placeholder and whose dates
\* are listed inline was parsed
PlaceholderSectionParsed ==
    /\ entities.set
    /\ layout = [pre |-> "prose",
                 secs |-> <<[cat |-> "obligations", form |-> "placeholder"],
                            [cat |-> "dates", form |-> "inline"]>>]
    /\ entities.val["obligations"] = <<ItemOf("obligations", 1)>>
    /\ entities.val["dates"] = <<ItemOf("dates", 1), ItemOf("dates", 2)>>

\* the layout with every inline section given as bullets and every bulleted
\* section given inline
Swapped(lay) ==
    [lay EXCEPT !.secs =
        [i \in 1..Len(lay.secs) |->
            [lay.secs[i] EXCEPT !.form =
                CASE @ = "inline" -> "bullets"
                  [] @ = "bullets" -> "inline"
                  [] OTHER -> @]]]

\* C12: the parser recovers the same items per category whether the items
\* of a section are an inline comma-separated list after the header or
\* bullet lines ('-' or the bullet character) after it, for any order of
\* the headers
InlineAndBulletsAgree ==
    entities.set =>
        /\ entities.val = ParseEntities(Render(Swapped(layout)))
        /\ layout.pre # "bullet" =>
              \A i \in 1..Len(layout.secs) :
                  layout.secs[i].form \in {"inline", "bullets"} =>
                      entities.val[layout.secs[i].cat] =
                          <<ItemOf(layout.secs[i].cat, 1),
                            ItemOf(layout.secs[i].cat, 2)>>

\* a reply with bulleted legal terms before inline parties was parsed, and
\* its text differs from the text with the two forms exchanged
BulletsBeforeInlineParsed ==
    /\ entities.set
    /\ layout = [pre |-> "none",
                 secs |-> <<[cat |-> "legal_terms", form |-> "bullets"],
                            [cat |-> "parties", form |-> "inline"]>>]
    /\ reply # Render(Swapped(layout))
    /\ entities.val["legal_terms"] =
          <<ItemOf("legal_terms", 1), ItemOf("legal_terms", 2)>>

\* C18: a bullet-prefixed line ('-' or the bullet character) before any
\* section header is ignored: it adds no item and the sections after it are
\* recovered as if the line were absent
BulletBeforeHeaderIgnored ==
    (entities.set /\ layout.pre \in {"dash", "bullet"}) =>
        entities.val = ParseEntities(Render([layout EXCEPT !.pre = "none"]))

(***************************************************************************)
(* The classification parser applied to confidence texts                   *)
(***************************************************************************)
\* the characters the text after 'Confidence:' is made of
ConfChars == {"0", "1", "2", "5", "8", "9", ".", "%", "a"}

MaxConfLen == 3

ConfStrings ==
    UNION {[1..n -> ConfChars] : n \in 0..MaxConfLen} \cup {<<"a", "b", "c">>}

\* the document-type labels of the classification prompt, lines 255-262
DOC_TYPES ==
    << <<"N","o","n","-","D","i","s","c","l","o","s","u","r","e"," ","A","g","r","e","e","m","e",
      "n","t"," ","(","N","D","A",")">>,
       <<"E","m","p","l","o","y","m","e","n","t"," ","C","o","n","t","r","a","c","t">>,
       <<"S","e","r","v","i","c","e"," ","A","g","r","e","e","m","e","n","t">>,
       <<"L","e","a","s","e"," ","A","g","r","e","e","m","e","n","t">>,
       <<"P","u","r","c","h","a","s","e"," ","A","g","r","e","e","m","e","n","t">>,
       <<"P","a","r","t","n","e","r","s","h","i","p"," ","A","g","r","e","e","m","e","n","t">>,
       <<"L","i","c","e","n","s","e"," ","A","g","r","e","e","m","e","n","t">>,
       GENERAL_LEGAL_DOCUMENT >>

\* the texts after 'Type:': none, two labels of the prompt, and a short name
TypeTexts == {<<>>, DOC_TYPES[1], DOC_TYPES[4], <<"N", "D", "A">>}

\* a classification reply with the type text on its first line and the
\* confidence text on its second
ClassReply(type, str) ==
    Join(<<HDR.type \o <<" ">> \o type,
           HDR.confidence \o <<" ">> \o str,
           <<"-", " ", "K", "1">>>>, <<"\n">>)

CInit ==
    /\ ServiceInit
    /\ full_response = <<>> /\ response = Pending
    /\ layout = NoLayout /\ reply = <<>> /\ entities = Pending
    /\ hashseed = 0
    /\ ai_entities = EmptyEntities /\ rule_entities = EmptyEntities
    /\ merged = Pending
    /\ text = <<>> /\ extracted = Pending /\ earlier = Pending
    /\ doc_type \in TypeTexts
    /\ conf_str \in ConfStrings
    /\ classification = Pending
    /\ question = <<>> /\ context = <<>> /\ simple_answers = Pending

\* classify_document_with_ai lines 276-318 on the reply
ParseClassificationReply ==
    /\ ~classification.set
    /\ classification' =
          Value(ParseClassification(ClassReply(doc_type, conf_str)))
    /\ UNCHANGED <<svars, gvars, pvars, hashseed, mvars, rvars, doc_type, conf_str,
                   qvars>>

CNext == ParseClassificationReply

ClassSpec == CInit /\ [][CNext]_vars

\* the fractions a and b denote the same number
SameNumber(a, b) == a.num * b.den = b.num * a.den

IsDigits(s) == s # <<>> /\ \A i \in 1..Len(s) : s[i] \in DigitChars

\* C13: the confidence is the first decimal number of the text after
\* 'Confidence:', divided by 100 when it exceeds 1.0 ("85" gives 0.85, "95%"
\* gives 0.95, "1.2" gives 0.012) and used as is otherwise ("0.9" gives 0.9);
\* a text without a number ("abc") leaves the default 0.5
ConfidenceParsed ==
    classification.set =>
        LET conf == classification.val.confidence
        IN  /\ conf_str = <<"8", "5">> => SameNumber(conf, Fraction(85, 100))
            /\ conf_str = <<"9", "5", "%">> => SameNumber(conf, Fraction(95, 100))
            /\ conf_str = <<"1", ".", "2">> => SameNumber(conf, Fraction(12, 1000))
            /\ conf_str = <<"0", ".", "9">> => SameNumber(conf, Fraction(9, 10))
            /\ conf_str = <<"a", "b", "c">> => conf = Fraction(5, 10)
            /\ (\A i \in 1..Len(conf_str) : conf_str[i] \notin DigitChars) =>
                  conf = Fraction(5, 10)
            /\ IsDigits(conf_str) =>
                  LET n == DigitsValue(conf_str)
                  IN  SameNumber(conf, IF n > 1 THEN Fraction(n, 100)
                                               ELSE Fraction(n, 1))
            /\ \A k \in 1..(Len(conf_str) - 2) :
                  LET a == SubSeq(conf_str, 1, k)
                      b == SubSeq(conf_str, k + 2, Len(conf_str))
                      n == DigitsValue(a \o b)
                      d == Pow10(Len(b))
                  IN  (IsDigits(a) /\ conf_str[k + 1] = "." /\ IsDigits(b)) =>
                          SameNumber(conf, IF n > d THEN Fraction(n, d * 100)
                                                   ELSE Fraction(n, d))

\* the reply with the confidence "95%" was parsed to 0.95
PercentParsed ==
    /\ classification.set
    /\ conf_str = <<"9", "5", "%">>
    /\ SameNumber(classification.val.confidence, Fraction(95, 100))
    /\ classification.val.key_characteristics = << <<"K", "1">> >>

\* C23: the type of every Classification returned is one of the document-type
\* labels listed in the classification prompt, 'General Legal Document' by
\* default, for every generated reply
TypeIsKnownLabel ==
    classification.set => classification.val.type \in Range(DOC_TYPES)

\* C21: the confidence of every Classification returned lies in [0.0, 1.0],
\* for every generated reply, also when the value after 'Confidence:' is a
\* number above 100
ConfidenceInUnitInterval ==
    classification.set =>
        /\ 0 <= classification.val.confidence.num
        /\ classification.val.confidence.num <= classification.val.confidence.den

(***************************************************************************)
(* merge_entity_results of entities.py                                     *)
(***************************************************************************)
\* the items the entity lists are made of; two of them are blank, and one
\* is another with a leading space
MergeItems ==
    << <<"A">>, <<"B">>, <<>>, <<"C">>, <<"D">>, <<"E">>, <<"F">>, <<"G">>,
       <<"H">>, <<" ">>, <<"I">>, <<"J">>, <<"K">>, <<"L">>, <<" ", "M">>, <<"M">> >>

\* dict.get(category, [])
GetItems(d, category) == IF category \in DOMAIN d THEN d[category] ELSE <<>>

\* "item and item.strip()"
NotBlank(item) == item # <<>> /\ Strip(item) # <<>>

MERGE_CAP == 10

\* the combination without the deduplication
CombinedWithRepeats(ai_items, rule_items, seed) == ai_items \o rule_items

\* combined = list(set(ai_items + rule_items))
Combined(ai_items, rule_items, seed) == ListOfSet(ai_items \o rule_items, seed)

\* the cap taken before the blank items are removed
MergeCategoryCapFirst(ai, rule, category, seed) ==
    SelectSeq(Prefix(Combined(GetItems(ai, category), GetItems(rule, category), seed),
                     MERGE_CAP),
              NotBlank)

\* one turn of the loop over the categories
MergeCategory(ai, rule, category, seed) ==
    Prefix(SelectSeq(Combined(GetItems(ai, category), GetItems(rule, category), seed),
                     NotBlank),
           MERGE_CAP)

merge_entity_results(ai, rule, seed) ==
    [category \in CategorySet |-> MergeCategory(ai, rule, category, seed)]

\* the entity lists merged: runs of the items, a different one per category
MaxRun == 12

RunList(start, n) == [i \in 1..n |-> MergeItems[((start + i - 2) % Len(MergeItems)) + 1]]

CategoryIndex(category) == CHOOSE k \in 1..5 : Categories[k] = category

EntitySets ==
    {[category \in CategorySet \ absent |->
          RunList(start + 2 * (CategoryIndex(category) - 1), n)] :
        start \in {1, 8}, n \in 0..MaxRun,
        absent \in {{}, {"dates"}, {"parties", "legal_terms"}}}

MInit ==
    /\ ServiceInit
    /\ full_response = <<>> /\ response = Pending
    /\ layout = NoLayout /\ reply = <<>> /\ entities = Pending
    /\ hashseed \in HashSeeds
    /\ ai_entities \in EntitySets
    /\ rule_entities \in EntitySets
    /\ merged = Pending
    /\ text = <<>> /\ extracted = Pending /\ earlier = Pending
    /\ doc_type = <<>> /\ conf_str = <<>> /\ classification = Pending
    /\ question = <<>> /\ context = <<>> /\ simple_answers = Pending

\* merge_entity_results(ai_entities, rule_entities)
MergeEntityResults ==
    /\ ~merged.set
    /\ merged' = Value(merge_entity_results(ai_entities, rule_entities, hashseed))
    /\ UNCHANGED <<svars, gvars, pvars, hashseed, ai_entities, rule_entities, rvars, cvars, qvars>>

MNext == MergeEntityResults

MergeSpec == MInit /\ [][MNext]_vars

\* C7: for every pair of entity sets and every category the merged list
\* holds only items of the two input lists, holds no item twice, has at most
\* 10 items and no empty or whitespace-only item; all five categories are in
\* the result even when an input lacks one
MergeIsSafe ==
    merged.set =>
        /\ DOMAIN merged.val = CategorySet
        /\ \A c \in CategorySet :
              /\ Range(merged.val[c]) \subseteq
                    Range(GetItems(ai_entities, c)) \cup Range(GetItems(rule_entities, c))
              /\ NoDup(merged.val[c])
              /\ Len(merged.val[c]) <= 10
              /\ \A i \in 1..Len(merged.val[c]) :
                    merged.val[c][i] # <<>> /\ Strip(merged.val[c][i]) # <<>>

\* two different inputs that share items, one of them without the dates,
\* were merged: the parties were capped at 10 and the blank items dropped
MergedOverlappingInputs ==
    /\ merged.set
    /\ ai_entities # rule_entities
    /\ "dates" \notin DOMAIN ai_entities
    /\ "dates" \in DOMAIN rule_entities
    /\ "parties" \in DOMAIN ai_entities
    /\ "parties" \in DOMAIN rule_entities
    /\ Range(ai_entities["parties"]) \cap Range(rule_entities["parties"]) # {}
    /\ <<>> \in Range(ai_entities["parties"])
    /\ Cardinality({x \in Range(ai_entities["parties"] \o rule_entities["parties"]) :
                       NotBlank(x)}) > 10
    /\ Len(merged.val["parties"]) = 10
    /\ merged.val["dates"] # <<>>

\* the distinct non-blank items of a list
DistinctNonBlank(items) == {x \in Range(items) : NotBlank(x)}

\* C8: merging an entity set with itself gives, for every category, as a
\* set, the deduplicated non-empty items of the category capped at 10: items
\* of that set, 10 of them when there are more than 10, and exactly that set
\* when there are at most 10
SelfMergeIsIdempotent ==
    (merged.set /\ ai_entities = rule_entities) =>
        \A c \in CategorySet :
            LET D == DistinctNonBlank(GetItems(ai_entities, c))
                R == Range(merged.val[c])
            IN  /\ R \subseteq D
                /\ Cardinality(R) = (IF Cardinality(D) > 10 THEN 10 ELSE Cardinality(D))
                /\ Cardinality(D) <= 10 => R = D

\* an entity set was merged with itself: one category had more than 10
\* distinct non-blank items among which blank ones, another had fewer
SelfMerged ==
    /\ merged.set
    /\ ai_entities = rule_entities
    /\ \E c \in DOMAIN ai_entities :
          /\ Cardinality(DistinctNonBlank(ai_entities[c])) > 10
          /\ <<>> \in Range(ai_entities[c])
          /\ Cardinality(Range(merged.val[c])) = 10
    /\ "dates" \notin DOMAIN ai_entities
    /\ merged.val["dates"] = <<>>

\* C19: merge_entity_results deduplicates by exact match after trimming: no
\* two items of a merged category are equal once leading and trailing
\* whitespace is removed
MergeDeduplicatesTrimmed ==
    merged.set =>
        \A c \in CategorySet :
            \A i, j \in 1..Len(merged.val[c]) :
                i # j => Strip(merged.val[c][i]) # Strip(merged.val[c][j])

(***************************************************************************)
(* extract_entities_rule_based applied to texts, in processes of different *)
(* hash seeds                                                              *)
(***************************************************************************)
\* the end-to-end scenario: its text and the items expected of it
SCENARIO ==
    [ text |->
        <<"J","o","h","n"," ","S","m","i","t","h"," ","s","h","a","l","l"," ","p","a","y"," ","$",
          "1",",","0","0","0",".","0","0"," ","t","o"," ","A","c","m","e"," ","C","o","r","p"," ",
          "w","i","t","h","i","n"," ","3","0"," ","d","a","y","s",".">>,
      obligation |->
        <<"s","h","a","l","l"," ","p","a","y"," ","$","1",",","0","0","0",".","0","0"," ","t","o",
          " ","A","c","m","e"," ","C","o","r","p"," ","w","i","t","h","i","n"," ","3","0"," ","d",
          "a","y","s",".">>,
      john_smith |->
        <<"J","o","h","n"," ","S","m","i","t","h">>,
      acme_corp |->
        <<"A","c","m","e"," ","C","o","r","p">> ]

\* the sentences the texts are made of
RulePieces ==
    <<
   <<"A","c","m","e"," ","L","L","C"," ","s","h","a","l","l"," ","p","a","y"," ","$","1","0",
        " ","a","n","d"," ","$","2","0"," ","t","o"," ","J","o","h","n"," ","S","m","i","t","h",
        ".">>,
   <<"$","1",",","0","0","0",".","0","0"," ","$","3","0"," ","$","4","0"," ","$","5","0">>,
   <<"d","u","e"," ","0","1","/","0","2","/","2","0","2","4",","," ","b","r","e","a","c","h",
        " ","o","f"," ","w","a","r","r","a","n","t","y">>,
   <<"L","e","s","s","o","r"," ","B","o","b"," ","L","e","e"," ","m","u","s","t"," ","l","e",
        "a","v","e"," ","w","i","t","h","i","n"," ","3","0"," ","d","a","y","s",".">>,
   SCENARIO.text >>

MaxTextPieces == 2

RECURSIVE PieceRuns(_)
\* the sequences of n sentences
PieceRuns(n) ==
    IF n = 0 THEN {<<>>}
    ELSE {Append(q, p) : q \in PieceRuns(n - 1), p \in Range(RulePieces)}

RuleTexts == {Join(q, <<" ">>) : q \in UNION {PieceRuns(n) : n \in 0..MaxTextPieces}}

\* extract_entities_rule_based of every text under every hash seed
Extractions ==
    [k \in RuleTexts \X HashSeeds |-> extract_entities_rule_based(k[1], k[2])]

RInit ==
    /\ ServiceInit
    /\ full_response = <<>> /\ response = Pending
    /\ layout = NoLayout /\ reply = <<>> /\ entities = Pending
    /\ hashseed \in HashSeeds
    /\ ai_entities = EmptyEntities /\ rule_entities = EmptyEntities
    /\ merged = Pending
    /\ text \in RuleTexts
    /\ extracted = Pending /\ earlier = Pending
    /\ doc_type = <<>> /\ conf_str = <<>> /\ classification = Pending
    /\ question = <<>> /\ context = <<>> /\ simple_answers = Pending

\* extract_entities_rule_based(text)
ExtractEntitiesRuleBased ==
    /\ ~extracted.set
    /\ extracted' = Value(Extractions[<<text, hashseed>>])
    /\ UNCHANGED <<svars, gvars, pvars, hashseed, mvars, text, earlier, cvars, qvars>>

\* the process ends and another one starts, with a hash seed of its own; the
\* result of the first is kept for the comparison
Restart ==
    /\ extracted.set /\ ~earlier.set
    /\ earlier' = extracted
    /\ extracted' = Pending
    /\ hashseed' \in HashSeeds
    /\ UNCHANGED <<svars, gvars, pvars, mvars, text, cvars, qvars>>

RNext == ExtractEntitiesRuleBased \/ Restart

RuleSpec == RInit /\ [][RNext]_vars

\* every result has the five categories, within the caps
RuleBasedIsComplete ==
    extracted.set =>
        /\ DOMAIN extracted.val = CategorySet
        /\ \A c \in CategorySet \ {"legal_terms"} : Len(extracted.val[c]) <= 5
        /\ Len(extracted.val["legal_terms"]) <= 8

\* two extractions of the same text give the same set of items per category
RuleBasedIsDeterministic ==
    (extracted.set /\ earlier.set) =>
        \A c \in CategorySet : Range(extracted.val[c]) = Range(earlier.val[c])

\* C9: for every input text extract_entities_rule_based returns all five
\* categories, parties, dates, monetary_values and obligations of at most 5
\* items and legal_terms of at most 8, without raising, and the same input
\* always yields the same set of items per category
RuleBasedIsCompleteAndDeterministic == RuleBasedIsComplete /\ RuleBasedIsDeterministic

\* C20: every category of the result is deduplicated: no category holds the
\* same string twice, also when the text repeats an obligation sentence
RuleBasedHasNoDuplicates ==
    extracted.set => \A c \in CategorySet : NoDup(extracted.val[c])

\* C16: for the text of the scenario the obligations include an item that
\* contains "shall pay $1,000.00 to Acme Corp within 30 days.": the
\* obligation runs from its modal verb to the end of the sentence
ObligationReachesSentenceEnd ==
    (extracted.set /\ text = SCENARIO.text) =>
        \E k \in 1..Len(extracted.val["obligations"]) :
            Contains(extracted.val["obligations"][k], SCENARIO.obligation)

\* C17: for the text of the scenario the parties include the exact item
\* "John Smith" or the exact item "Acme Corp"
PartiesAreEntityNames ==
    (extracted.set /\ text = SCENARIO.text) =>
        \/ SCENARIO.john_smith \in Range(extracted.val["parties"])
        \/ SCENARIO.acme_corp \in Range(extracted.val["parties"])

(***************************************************************************)
(* _try_simple_answer applied to questions and contexts                    *)
(***************************************************************************)
\* the phrases the questions are made of
QuestionPieces ==
    << <<"S","u","m","m","a","r","i","z","e">>,
       <<"W","h","a","t"," ","i","s">>,
       <<"d","e","f","i","n","e">>,
       <<"h","o","w"," ","t","o">>,
       <<"t","h","e"," ","c","o","n","t","r","a","c","t">>,
       <<"t","h","i","s">> >>

MaxQuestionPieces == 2

RECURSIVE PhraseRuns(_)
\* the sequences of n phrases
PhraseRuns(n) ==
    IF n = 0 THEN {<<>>}
    ELSE {Append(q, p) : q \in PhraseRuns(n - 1), p \in Range(QuestionPieces)}

Questions == {Join(q, <<" ">>) : q \in UNION {PhraseRuns(n) : n \in 0..MaxQuestionPieces}}

Contexts ==
    { <<>>,
      <<"O","n","e","."," ","T","w","o","."," ","T","h","r","e","e","."," ","F","o","u","r",".">>,
      <<"N","o"," ","s","t","o","p">> }

QInit ==
    /\ ServiceInit
    /\ full_response = <<>> /\ response = Pending
    /\ layout = NoLayout /\ reply = <<>> /\ entities = Pending
    /\ hashseed = 0
    /\ ai_entities = EmptyEntities /\ rule_entities = EmptyEntities
    /\ merged = Pending
    /\ text = <<>> /\ extracted = Pending /\ earlier = Pending
    /\ doc_type = <<>> /\ conf_str = <<>> /\ classification = Pending
    /\ question \in Questions
    /\ context \in Contexts
    /\ simple_answers = Pending

\* answer_question line 333: simple_answers = self._try_simple_answer(...)
TryAnswer ==
    /\ ~simple_answers.set
    /\ simple_answers' = Value(TrySimpleAnswer(question, context))
    /\ UNCHANGED <<svars, gvars, pvars, hashseed, mvars, rvars, cvars,
                   question, context>>

QNext == TryAnswer

AnswerSpec == QInit /\ [][QNext]_vars

\* the summary of a context: its first three '.'-separated sentences
SummaryOf(ctx) ==
    ANS.summary_head \o Join(Prefix(Split(ctx, <<".">>), 3), <<".", " ">>)
        \o ANS.summary_tail

\* C22: for every question whose lower-cased text contains 'summarize' and
\* every non-empty context, the shortcut answers with the summary built from
\* the first three sentences of the context, also when the question
\* contains 'what is', 'define' or 'how to'
SummarizeGivesSummary ==
    (simple_answers.set /\ Contains(StrLower(question), KW.summarize)
                        /\ context # <<>>) =>
        simple_answers.val = SummaryOf(context)

(***************************************************************************)
(* Model lifecycle and generate_response under concurrent requests         *)
(***************************************************************************)

\* C1: model acquisition is single-flight: at most one execution of
\* _initialize_model is in progress at any time
SingleFlight == Cardinality({t \in Threads : InInit(t)}) <= 1

\* the value a call returns when the model is unavailable
UnavailableValue(r) ==
    IF r.op = "generate_response" THEN StrRet(MSG.not_available) ELSE Fallbacks[r]

\* C2: LOAD_FAILED is terminal: once a call of _initialize_model has ended in
\* an exception, no later call of a service operation starts another
\* acquisition, and each later call that needs the model returns its fallback
LoadFailedIsTerminal ==
    failed = "settled" =>
        \A t \in Threads :
            /\ ~InInit(t)
            /\ (pc[t] = "done" /\ SimpleAnswers[req[t]] = <<>>)
                   => ret[t] = UnavailableValue(req[t])

\* C3: model_loaded starts false and, once true, stays true in every step
LoadedIsPermanent == [][model_loaded => model_loaded']_vars

\* C4: generate_response always returns a string and never raises; when it
\* finds the model not loaded after the load attempt it returns the
\* 'Model not available' message and does not invoke the pipeline
GenerateAlwaysReturns ==
    \A t \in Threads :
        gen[t].called =>
            /\ pc[t] \in {"pipeline", "done"}
            /\ pc[t] = "pipeline" => gen[t].loaded /\ ~gen[t].invoked
            /\ pc[t] = "done" =>
                  /\ gen[t].status = "returned"
                  /\ ~gen[t].loaded =>
                        gen[t].out = MSG.not_available /\ ~gen[t].invoked
                  /\ req[t].op = "generate_response" => ret[t] = StrRet(gen[t].out)

\* a generate_response call found the model unavailable after a failed load
\* and returned the message
UnavailableReturned ==
    \E t \in Threads :
        /\ pc[t] = "done"
        /\ req[t].op = "generate_response"
        /\ failed # "no"
        /\ gen[t].called /\ ~gen[t].loaded /\ ~gen[t].invoked
        /\ ret[t] = StrRet(MSG.not_available)

\* C5: when the pipeline call raises, generate_response returns the
\* 'technical difficulties with text generation' message, does not
\* propagate, and leaves model_loaded and the handles as they were
GenerationErrorContained ==
    [][\A t \in Threads :
          (pc[t] = "pipeline" /\ gen'[t].error) =>
              /\ gen'[t].status = "returned"
              /\ gen'[t].out = MSG.gen_error
              /\ req[t].op = "generate_response" => ret'[t] = StrRet(MSG.gen_error)
              /\ UNCHANGED handles]_vars

\* a pipeline call raised while the model was loaded and the call returned
GenerationErrorReturned ==
    \E t \in Threads :
        /\ pc[t] = "done"
        /\ gen[t].error /\ gen[t].loaded
        /\ model_loaded /\ pipeline
        /\ gen[t].out = MSG.gen_error

\* C14: the shortcut of answer_question is independent of the model state:
\* when _try_simple_answer yields a non-empty answer, answer_question
\* returns that answer whether the model is unloaded, loaded or load-failed,
\* starts no acquisition and invokes no generation
ShortcutIgnoresModel ==
    [][\A t \in Threads :
          LET r == req'[t]
              a == TrySimpleAnswer(r.text, r.context)
          IN  (r.op = "answer_question" /\ a # <<>>) =>
                  /\ pc'[t] = "done"
                  /\ ret'[t] = StrRet(a)
                  /\ ~gen'[t].called /\ ~gen'[t].invoked
                  /\ pc[t] = "idle" => UNCHANGED handles]_vars

\* the question 'What is a contract?' was answered by the shortcut on a
\* service whose model is loaded after an earlier load had failed
ShortcutAnsweredWhenLoaded ==
    \E t \in Threads :
        /\ pc[t] = "done"
        /\ req[t].op = "answer_question" /\ req[t].text = SAMPLE.q_define
        /\ ret[t] = StrRet(ANS.contract)
        /\ model_loaded /\ failed # "no"

====
